---- MODULE Spec2Model ----
(***************************************************************************)
(* Verification model of the stylus-zkvm-verifiers contracts: the Groth16  *)
(* engine (common/groth16.rs), the RISC Zero and SP1 seal dispatchers      *)
(* (risc0/verifier.rs, sp1/verifier.rs, sp1/plonk/verifier.rs), the PLONK  *)
(* engine skeleton (common/plonk.rs) and the Fiat-Shamir transcript        *)
(* (sp1/plonk/crypto.rs).                                                  *)
(*                                                                         *)
(* Widths are scaled so that the values stay inside TLC's integers: a byte *)
(* holds 0..ByteBase-1, a 32-byte word (B256/U256) is WordLen bytes, and   *)
(* the BN254 primes are replaced by the primes of the curve y^2 = x^3 + 3  *)
(* over F_691, whose group has prime order 643 and contains (1, 2).  The   *)
(* orderings the code relies on are kept: 2^128 < 2^253 < R < Q < 2^254    *)
(* becomes 64 < 512 < 643 < 691 < 1024, with U256 = 0..4095.               *)
(***************************************************************************)
EXTENDS Integers, Sequences, FiniteSets, TLC

VARIABLES
    control_root_0,     \* RiscZeroVerifier storage: bytes16
    control_root_1,     \* RiscZeroVerifier storage: bytes16
    bn254_control_id,   \* RiscZeroVerifier storage: bytes32
    selector,           \* RiscZeroVerifier storage: bytes4
    initialized,        \* RiscZeroVerifier storage: bool
    call,               \* the last external call and its arguments
    result,             \* what that call returned
    engine,             \* the engine invocation made by that call, if any
    oracle,             \* the precompile calls made by that call, in order
    ordered,            \* fs::Transcript.ordered
    last_pos,           \* fs::Transcript.last_pos
    fs_call,            \* the last transcript operation and its argument
    fs_ret              \* what that transcript operation returned

vars == <<control_root_0, control_root_1, bn254_control_id, selector, initialized,
          call, result, engine, oracle, ordered, last_pos, fs_call, fs_ret>>

storage == <<control_root_0, control_root_1, bn254_control_id, selector, initialized>>
callVars == <<call, result, engine, oracle>>
fsVars == <<ordered, last_pos, fs_call, fs_ret>>

-----------------------------------------------------------------------------
(* Scalars, bytes and words *)

ByteBase == 8
WordLen == 4
HalfLen == WordLen \div 2
U256Mod == ByteBase ^ WordLen

R == 643
Q == 691

Bytes == 0 .. (ByteBase - 1)

RECURSIVE from_be_slice(_)
from_be_slice(bs) ==
    IF bs = <<>> THEN 0
    ELSE from_be_slice(SubSeq(bs, 1, Len(bs) - 1)) * ByteBase + bs[Len(bs)]

to_bytes(x) == [i \in 1 .. WordLen |-> (x \div (ByteBase ^ (WordLen - i))) % ByteBase]

RECURSIVE Flatten(_)
Flatten(ss) == IF ss = <<>> THEN <<>> ELSE Head(ss) \o Flatten(Tail(ss))

ZeroWord == [i \in 1 .. WordLen |-> 0]

(* SHA-256 stands as a fixed mixing function of the whole input, length
   included, onto one word. *)
RECURSIVE ShaMix(_, _)
ShaMix(h, bs) ==
    IF bs = <<>> THEN h
    ELSE ShaMix((h * 37 + Head(bs) * 11 + Len(bs) + 5) % U256Mod, Tail(bs))

Sha256(bs) == to_bytes(ShaMix(1229, bs))

-----------------------------------------------------------------------------
(* The BN254 precompiles (addresses 6, 7, 8): the group law of the scaled  *)
(* curve, failing on operands that are not points of it.                   *)

Infinity == [x |-> 0, y |-> 0]

PowStep(h, b, e) == IF e % 2 = 1 THEN (((h * h) % Q) * (b % Q)) % Q ELSE (h * h) % Q

RECURSIVE PowQ(_, _)
PowQ(b, e) == IF e = 0 THEN 1 ELSE PowStep(PowQ(b, e \div 2), b, e)

InvQ(d) == PowQ(d % Q, Q - 2)

OnCurve(p) ==
    \/ p = Infinity
    \/ /\ p.x < Q
       /\ p.y < Q
       /\ (p.y * p.y) % Q = (((p.x * p.x) % Q) * p.x + 3) % Q

(* the slope of the line through p1 and p2 (the tangent when p1 = p2) *)
Slope(p1, p2) ==
    IF p1 = p2
    THEN (((3 * p1.x * p1.x) % Q) * InvQ(2 * p1.y)) % Q
    ELSE (((p2.y + Q - p1.y) % Q) * InvQ(p2.x + Q - p1.x)) % Q

ThirdPoint(p1, p2, l) ==
    LET x3 == (l * l + 2 * Q - p1.x - p2.x) % Q
    IN  [x |-> x3, y |-> (l * ((p1.x + Q - x3) % Q) + Q - p1.y) % Q]

CurveAdd(p1, p2) ==
    IF p1 = Infinity THEN p2
    ELSE IF p2 = Infinity THEN p1
    ELSE IF p1.x = p2.x /\ (p1.y + p2.y) % Q = 0 THEN Infinity
    ELSE ThirdPoint(p1, p2, Slope(p1, p2))

(* double-and-add *)
AddBit(d, p, s) == IF s % 2 = 1 THEN CurveAdd(d, p) ELSE d
Double(h) == CurveAdd(h, h)

RECURSIVE CurveMul(_, _)
CurveMul(p, s) ==
    IF s = 0 THEN Infinity ELSE AddBit(Double(CurveMul(p, s \div 2)), p, s)

g1_from_bytes(bs) ==
    [x |-> from_be_slice(SubSeq(bs, 1, WordLen)),
     y |-> from_be_slice(SubSeq(bs, WordLen + 1, 2 * WordLen))]

g1_bytes(p) == to_bytes(p.x) \o to_bytes(p.y)

Failed == [ok |-> FALSE, ret |-> <<>>]

EcAddPrecompile(input) ==
    LET p1 == g1_from_bytes(SubSeq(input, 1, 2 * WordLen))
        p2 == g1_from_bytes(SubSeq(input, 2 * WordLen + 1, 4 * WordLen))
    IN  IF OnCurve(p1) /\ OnCurve(p2)
        THEN [ok |-> TRUE, ret |-> g1_bytes(CurveAdd(p1, p2))]
        ELSE Failed

EcMulPrecompile(input) ==
    LET p == g1_from_bytes(SubSeq(input, 1, 2 * WordLen))
        s == from_be_slice(SubSeq(input, 2 * WordLen + 1, 3 * WordLen))
    IN  IF OnCurve(p)
        THEN [ok |-> TRUE, ret |-> g1_bytes(CurveMul(p, s))]
        ELSE Failed

EC_ADD == 6
EC_MUL == 7
EC_PAIRING == 8
SHA2 == 2

(* The environment of one external call: the index of the precompile call
   that fails for a reason outside the operands (0: none does), and the
   word the pairing precompile answers with when it does not fail. *)
MaxCalls == 20
PairingWords == {to_bytes(0), to_bytes(1)}
Envs == [failAt : 0 .. MaxCalls, pairing : PairingWords]

Precompile(addr, input, env) ==
    IF addr = EC_ADD THEN EcAddPrecompile(input)
    ELSE IF addr = EC_MUL THEN EcMulPrecompile(input)
    ELSE IF addr = EC_PAIRING THEN [ok |-> TRUE, ret |-> env.pairing]
    ELSE [ok |-> TRUE, ret |-> Sha256(input)]

(* RawCall::new_static().call(addr, calldata): the call is appended to the
   trace `calls` with its outcome. *)
Recorded(addr, input, calls, out) ==
    [ok |-> out.ok, ret |-> out.ret,
     calls |-> Append(calls, [addr |-> addr, input |-> input,
                              ok |-> out.ok, ret |-> out.ret])]

RawCall(addr, input, calls, env) ==
    Recorded(addr, input, calls,
             IF env.failAt = Len(calls) + 1 THEN Failed
             ELSE Precompile(addr, input, env))

-----------------------------------------------------------------------------
(* common/groth16.rs: the Groth16 engine *)

G1(px, py) == [x |-> px, y |-> py]
G2(x0, x1, y0, y1) == [x |-> <<x0, x1>>, y |-> <<y0, y1>>]

negate(p) ==
    IF p.x = 0 /\ p.y = 0 THEN p
    ELSE [x |-> p.x, y |-> Q - (p.y % Q)]

(* .map(|ret| G1Point { x: from_be_slice(&ret[0..32]), y: from_be_slice(&ret[32..64]) }) *)
map_g1(r) ==
    [ok |-> r.ok,
     val |-> IF r.ok THEN g1_from_bytes(r.ret) ELSE Infinity,
     calls |-> r.calls]

point_add(p1, p2, calls, env) ==
    map_g1(RawCall(EC_ADD,
                   Flatten(<<to_bytes(p1.x), to_bytes(p1.y),
                             to_bytes(p2.x), to_bytes(p2.y)>>),
                   calls, env))

scalar_mul(p, s, calls, env) ==
    map_g1(RawCall(EC_MUL, Flatten(<<to_bytes(p.x), to_bytes(p.y), to_bytes(s)>>),
                   calls, env))

(* u8 bitwise complement, as `!ret[31]` computes it *)
NotU8(b) == (ByteBase - 1) - b

PairingCalldata(a1, a2, b1, b2, c1, c2, d1, d2) ==
    Flatten(<<
        to_bytes(a1.x), to_bytes(a1.y),
        to_bytes(a2.x[2]), to_bytes(a2.x[1]), to_bytes(a2.y[2]), to_bytes(a2.y[1]),
        to_bytes(b1.x), to_bytes(b1.y),
        to_bytes(b2.x[2]), to_bytes(b2.x[1]), to_bytes(b2.y[2]), to_bytes(b2.y[1]),
        to_bytes(c1.x), to_bytes(c1.y),
        to_bytes(c2.x[2]), to_bytes(c2.x[1]), to_bytes(c2.y[2]), to_bytes(c2.y[1]),
        to_bytes(d1.x), to_bytes(d1.y),
        to_bytes(d2.x[2]), to_bytes(d2.x[1]), to_bytes(d2.y[2]), to_bytes(d2.y[1])>>)

(* .map(|ret| !ret[31] != 0) *)
map_pairing(r) ==
    [ok |-> r.ok,
     val |-> IF r.ok THEN NotU8(r.ret[WordLen]) # 0 ELSE FALSE,
     calls |-> r.calls]

pairing_check(a1, a2, b1, b2, c1, c2, d1, d2, calls, env) ==
    map_pairing(RawCall(EC_PAIRING, PairingCalldata(a1, a2, b1, b2, c1, c2, d1, d2),
                        calls, env))

(* The vk_x loop: for each signal, scalar_mul(ic, sig).and_then(point_add(vk_x, _));
   the first failure ends it. *)
RECURSIVE vk_x_loop(_, _, _, _, _, _)
vk_x_after_add(ic, public_signals, i, vk_x, t, env) ==
    IF ~t.ok THEN [ok |-> FALSE, vk_x |-> vk_x, calls |-> t.calls]
    ELSE vk_x_loop(ic, public_signals, i + 1, t.val, t.calls, env)

(* the vk_x loop going on after a failed scalar_mul *)
vk_x_after_mul_ignoring_failure(ic, public_signals, i, vk_x, m, env) ==
    vk_x_after_add(ic, public_signals, i, vk_x, point_add(vk_x, m.val, m.calls, env), env)

vk_x_after_mul(ic, public_signals, i, vk_x, m, env) ==
    IF ~m.ok THEN [ok |-> FALSE, vk_x |-> vk_x, calls |-> m.calls]
    ELSE vk_x_after_add(ic, public_signals, i, vk_x,
                        point_add(vk_x, m.val, m.calls, env), env)

(* the vk_x loop pairing signal i with ic[i - 1], so the first with ic_0 *)
vk_x_loop_from_ic0(ic, public_signals, i, vk_x, calls, env) ==
    IF i > Len(public_signals) THEN [ok |-> TRUE, vk_x |-> vk_x, calls |-> calls]
    ELSE vk_x_after_mul(ic, public_signals, i, vk_x,
                        scalar_mul(ic[i], public_signals[i], calls, env), env)

vk_x_loop(ic, public_signals, i, vk_x, calls, env) ==
    IF i > Len(public_signals) THEN [ok |-> TRUE, vk_x |-> vk_x, calls |-> calls]
    ELSE vk_x_after_mul(ic, public_signals, i, vk_x,
                        scalar_mul(ic[i + 1], public_signals[i], calls, env), env)

(* match pairing_check(..) { Ok(ok) => ok, Err(_) => false } *)
match_pairing(pc) == [ret |-> IF pc.ok THEN pc.val ELSE FALSE, calls |-> pc.calls]

(* verify_proof_with_key after the vk_x loop *)
verify_with_vk_x(vk, a, b, c, l, env) ==
    IF ~l.ok THEN [ret |-> FALSE, calls |-> l.calls]
    ELSE match_pairing(
             pairing_check(negate(G1(a[1], a[2])),
                           [x |-> <<b[1][1], b[1][2]>>, y |-> <<b[2][1], b[2][2]>>],
                           vk.alpha1, vk.beta2,
                           l.vk_x, vk.gamma2,
                           G1(c[1], c[2]), vk.delta2, l.calls, env))

(* verify_proof_with_key without the field-range check on the public signals *)
verify_proof_with_key_no_range_check(vk, a, b, c, public_signals, env) ==
    IF Len(public_signals) + 1 # Len(vk.ic) THEN [ret |-> FALSE, calls |-> <<>>]
    ELSE verify_with_vk_x(vk, a, b, c,
                          vk_x_loop(vk.ic, public_signals, 1, vk.ic[1], <<>>, env), env)

(* Groth16Verifier::verify_proof_with_key: the returned bool and the
   precompile calls made, in order. *)
verify_proof_with_key(vk, a, b, c, public_signals, env) ==
    IF Len(public_signals) + 1 # Len(vk.ic) THEN [ret |-> FALSE, calls |-> <<>>]
    ELSE IF \E i \in 1 .. Len(public_signals) : public_signals[i] >= R
    THEN [ret |-> FALSE, calls |-> <<>>]
    ELSE verify_with_vk_x(vk, a, b, c,
                          vk_x_loop(vk.ic, public_signals, 1, vk.ic[1], <<>>, env), env)

-----------------------------------------------------------------------------
(* risc0/config.rs, risc0/types.rs, risc0/crypto.rs *)

SelectorLen == 4

RECEIPT_CLAIM_TAG == <<1, 1>>
OUTPUT_TAG == <<1, 2>>
VK_IC_TAG == <<2, 1>>
VK_TAG == <<2, 2>>
GROTH16_RECEIPT_VERIFIER_PARAMETERS_TAG == <<2, 3>>

SYSTEM_STATE_ZERO_DIGEST == <<5, 1, 6, 2>>

Halted == 0

(* (n as u16) << 8, big-endian: the count in the high byte *)
u16_shl8_be(n) == <<n, 0>>

(* (n as u32) << 24, big-endian: the code in the first byte *)
u32_shl24_be(n) == <<n, 0, 0, 0>>

ALPHA1 == G1(388, 231)
BETA2 == G2(11, 12, 13, 14)
GAMMA2 == G2(21, 22, 23, 24)
DELTA2 == G2(31, 32, 33, 34)
IC == <<G1(560, 97), G1(441, 545), G1(63, 245), G1(415, 669), G1(493, 357), G1(195, 417)>>

get_verification_key ==
    [alpha1 |-> ALPHA1, beta2 |-> BETA2, gamma2 |-> GAMMA2, delta2 |-> DELTA2, ic |-> IC]

reverse_byte_order_uint256(value) ==
    [i \in 1 .. Len(value) |-> value[Len(value) + 1 - i]]

(* split_digest handing back (high, low) *)
split_digest_high_first(d) ==
    <<SubSeq(reverse_byte_order_uint256(d), 1, HalfLen),
      SubSeq(reverse_byte_order_uint256(d), HalfLen + 1, WordLen)>>

(* (low, high): the last and the first half of the reversed digest *)
split_digest(d) ==
    LET rev == reverse_byte_order_uint256(d)
    IN  <<SubSeq(rev, HalfLen + 1, WordLen), SubSeq(rev, 1, HalfLen)>>

tagged_struct(tag_digest, down) ==
    Sha256(tag_digest \o Flatten(down) \o u16_shl8_be(Len(down)))

tagged_list_cons(tag_digest, head, tail) == tagged_struct(tag_digest, <<head, tail>>)

RECURSIVE tagged_list(_, _)
tagged_list(tag_digest, list) ==
    IF list = <<>> THEN ZeroWord
    ELSE tagged_list_cons(tag_digest, Head(list), tagged_list(tag_digest, Tail(list)))

G2PackedDigest(p) ==
    Sha256(to_bytes(p.x[1]) \o to_bytes(p.x[2]) \o to_bytes(p.y[1]) \o to_bytes(p.y[2]))

compute_verifier_key_digest ==
    LET ic_digests == [i \in 1 .. Len(IC) |-> Sha256(to_bytes(IC[i].x) \o to_bytes(IC[i].y))]
        alpha_digest == Sha256(to_bytes(ALPHA1.x) \o to_bytes(ALPHA1.y))
        ic_list_digest == tagged_list(Sha256(VK_IC_TAG), ic_digests)
    IN  Sha256(Sha256(VK_TAG) \o alpha_digest \o G2PackedDigest(BETA2)
               \o G2PackedDigest(GAMMA2) \o G2PackedDigest(DELTA2)
               \o ic_list_digest \o u16_shl8_be(5))

OutputDigest(journal_digest, assumptions_digest) ==
    Sha256(Sha256(OUTPUT_TAG) \o journal_digest \o assumptions_digest \o u16_shl8_be(2))

(* ReceiptClaim::ok(image_id, journal_digest) *)
ReceiptClaimOk(image_id, journal_digest) ==
    [pre_state_digest |-> image_id,
     post_state_digest |-> SYSTEM_STATE_ZERO_DIGEST,
     exit_code |-> [system |-> Halted, user |-> 0],
     input |-> ZeroWord,
     output |-> OutputDigest(journal_digest, ZeroWord)]

(* the claim digest with the pre- and post-state digests in swapped order *)
ReceiptClaimDigestPostFirst(claim) ==
    Sha256(Sha256(RECEIPT_CLAIM_TAG) \o claim.input \o claim.post_state_digest
           \o claim.pre_state_digest \o claim.output
           \o u32_shl24_be(claim.exit_code.system) \o u32_shl24_be(claim.exit_code.user)
           \o u16_shl8_be(4))

ReceiptClaimDigest(claim) ==
    Sha256(Sha256(RECEIPT_CLAIM_TAG) \o claim.input \o claim.pre_state_digest
           \o claim.post_state_digest \o claim.output
           \o u32_shl24_be(claim.exit_code.system) \o u32_shl24_be(claim.exit_code.user)
           \o u16_shl8_be(4))

-----------------------------------------------------------------------------
(* Results, ABI decoding *)

Ok(v) == [tag |-> "Ok", val |-> v, err |-> "", received |-> <<>>, expected |-> <<>>]
Err(e) == [tag |-> "Err", val |-> "", err |-> e, received |-> <<>>, expected |-> <<>>]
ErrSelector(e, rcv, exp) ==
    [tag |-> "Err", val |-> "", err |-> e, received |-> rcv, expected |-> exp]

(* What a call handed to the engine and what the engine returned. *)
NoEngine == [called |-> FALSE, system |-> "none", ret |-> FALSE, panicked |-> FALSE,
             vk |-> <<>>, a |-> <<>>, b |-> <<>>, c |-> <<>>, public_signals |-> <<>>,
             challenges |-> <<>>]
EngineRun(sys, vk, pa, pb, pc, sigs, r) ==
    [called |-> TRUE, system |-> sys, ret |-> r, panicked |-> FALSE,
     vk |-> vk, a |-> pa, b |-> pb, c |-> pc, public_signals |-> sigs,
     challenges |-> <<>>]
PlonkRun(sys, vk, sigs, out) ==
    [called |-> TRUE, system |-> sys, ret |-> out.ret, panicked |-> out.panicked,
     vk |-> vk, a |-> <<>>, b |-> <<>>, c |-> <<>>, public_signals |-> sigs,
     challenges |-> out.challenges]
Panic == [tag |-> "Panic", val |-> "", err |-> "", received |-> <<>>, expected |-> <<>>]

Outcome(res, eng, calls) == [result |-> res, engine |-> eng, oracle |-> calls]

(* SolType::abi_decode(data, true) of a static record of n uint256 words *)
abi_decode(data, n) ==
    IF Len(data) # n * WordLen THEN [ok |-> FALSE, words |-> <<>>]
    ELSE [ok |-> TRUE,
          words |-> [i \in 1 .. n |->
                        from_be_slice(SubSeq(data, (i - 1) * WordLen + 1, i * WordLen))]]

abi_encode(words) == Flatten([i \in 1 .. Len(words) |-> to_bytes(words[i])])

-----------------------------------------------------------------------------
(* risc0/verifier.rs *)

(* the selector hashed over bn254_control_id as given, not byte-reversed *)
calculate_selector_id_as_given(control_root, control_id) ==
    SubSeq(Sha256(Sha256(GROTH16_RECEIPT_VERIFIER_PARAMETERS_TAG) \o control_root
                  \o control_id \o compute_verifier_key_digest \o u16_shl8_be(3)),
           1, SelectorLen)

calculate_selector(control_root, control_id) ==
    LET tag_digest == Sha256(GROTH16_RECEIPT_VERIFIER_PARAMETERS_TAG)
        packed_data == tag_digest \o control_root
                       \o reverse_byte_order_uint256(control_id)
                       \o compute_verifier_key_digest \o u16_shl8_be(3)
    IN  SubSeq(Sha256(packed_data), 1, SelectorLen)

(* a selector read that drops the fourth byte *)
selector_prefix_three_bytes(seal) == SubSeq(seal, 1, SelectorLen - 1) \o <<0>>

(* a dispatcher tail that hands the engine's verdict back as Ok(verdict) *)
verified_result_as_bool(verified) == Ok(IF verified THEN "true" ELSE "false")

(* FixedBytes::<4>::from_slice(&seal[..4]) *)
selector_prefix(seal) == SubSeq(seal, 1, SelectorLen)

(* the tail of verify_integrity_internal: Err(VERIFICATION_FAILED) unless
   the engine returned true, Ok(true) otherwise *)
verified_result(verified) ==
    IF ~verified THEN Err("VerificationFailed") ELSE Ok("true")

(* the tail of verify_integrity_internal: the engine's bool as the result *)
risc0_verified(a, b, c, public_signals, v) ==
    Outcome(verified_result(v.ret),
            EngineRun("risc0", get_verification_key, a, b, c, public_signals, v.ret),
            v.calls)

risc0_verify_signals(a, b, c, public_signals, env) ==
    risc0_verified(a, b, c, public_signals,
                   verify_proof_with_key(get_verification_key, a, b, c, public_signals, env))

verify_integrity_internal(seal, claim_digest, env) ==
    IF Len(seal) < SelectorLen THEN Outcome(Err("InvalidProofData"), NoEngine, <<>>)
    ELSE IF selector_prefix(seal) # selector
    THEN Outcome(ErrSelector("SelectorMismatch", selector_prefix(seal), selector),
                 NoEngine, <<>>)
    ELSE
    LET decoded == abi_decode(SubSeq(seal, SelectorLen + 1, Len(seal)), 8)
        w == decoded.words
        claim == split_digest(claim_digest)
    IN  IF ~decoded.ok THEN Outcome(Err("InvalidProofData"), NoEngine, <<>>)
        ELSE risc0_verify_signals(
                 <<w[1], w[2]>>, <<<<w[3], w[4]>>, <<w[5], w[6]>>>>, <<w[7], w[8]>>,
                 <<from_be_slice(control_root_0),
                   from_be_slice(control_root_1),
                   from_be_slice(claim[1]),
                   from_be_slice(claim[2]),
                   from_be_slice(bn254_control_id)>>,
                 env)

-----------------------------------------------------------------------------
(* sp1/groth16/types.rs, sp1/verifier.rs *)

(* config::get_verifier_selector() and crypto::vk of the SP1 Groth16
   verifier: a fixed selector and a key with three IC points. *)
Sp1VerifierSelector == <<1, 1, 6, 1>>

Sp1VerificationKey ==
    [alpha1 |-> G1(238, 613), beta2 |-> G2(41, 42, 43, 44), gamma2 |-> G2(51, 52, 53, 54),
     delta2 |-> G2(61, 62, 63, 64),
     ic |-> <<G1(596, 228), G1(245, 630), G1(613, 190)>>]

(* hash[0] &= 0x1F: the top three bits of the first byte are cleared *)
MaskTop3(b) == b % (ByteBase \div 8)

hash_public_values(public_values) ==
    LET hash == Sha256(public_values)
        masked == [hash EXCEPT ![1] = MaskTop3(hash[1])]
    IN  from_be_slice(masked) % R

(* Sp1PublicInputs::new(program_vkey, public_values).to_array() *)
Sp1PublicInputs(program_vkey, public_values) ==
    <<from_be_slice(program_vkey), hash_public_values(public_values)>>

(* the tail of Sp1Verifier::verify_proof_internal *)
sp1_verified(a, b, c, public_signals, v) ==
    Outcome(IF ~v.ret THEN Err("VerificationFailed") ELSE Ok("unit"),
            EngineRun("sp1", Sp1VerificationKey, a, b, c, public_signals, v.ret),
            v.calls)

sp1_verify_signals(a, b, c, public_signals, env) ==
    sp1_verified(a, b, c, public_signals,
                 verify_proof_with_key(Sp1VerificationKey, a, b, c, public_signals, env))

sp1_verify_proof_internal(program_vkey, public_values, proof_bytes, env) ==
    IF Len(proof_bytes) < SelectorLen THEN Outcome(Err("InvalidProofData"), NoEngine, <<>>)
    ELSE IF selector_prefix(proof_bytes) # Sp1VerifierSelector
    THEN Outcome(ErrSelector("WrongVerifierSelector", selector_prefix(proof_bytes),
                             Sp1VerifierSelector), NoEngine, <<>>)
    ELSE
    LET sp1_proof == abi_decode(SubSeq(proof_bytes, SelectorLen + 1, Len(proof_bytes)), 8)
        w == sp1_proof.words
    IN  IF ~sp1_proof.ok THEN Outcome(Err("InvalidProofData"), NoEngine, <<>>)
        ELSE sp1_verify_signals(
                 <<w[1], w[2]>>, <<<<w[3], w[4]>>, <<w[5], w[6]>>>>, <<w[7], w[8]>>,
                 Sp1PublicInputs(program_vkey, public_values), env)

-----------------------------------------------------------------------------
(* common/plonk.rs: the PLONK engine *)

wrapping_add(a, b) == (a + b) % U256Mod
wrapping_sub(a, b) == (a + U256Mod - b) % U256Mod
wrapping_mul(a, b) == (a * b) % U256Mod

(* U256::as_limbs()[0]: the least significant of the four limbs *)
Limb0(x) == x % (ByteBase ^ (WordLen \div 4))

OkV(v) == [ok |-> TRUE, val |-> v]
ErrV == [ok |-> FALSE, val |-> 0]

RECURSIVE pow_loop(_, _, _)
pow_loop(res, base, exp) ==
    IF exp = 0 THEN res
    ELSE pow_loop(IF exp % 2 = 1 THEN wrapping_mul(res, base) % R ELSE res,
                  wrapping_mul(base, base) % R,
                  exp \div 2)

(* PlonkVerifier::pow_mod(base, exp: u64) *)
plonk_pow_mod(base, exp) == IF exp = 0 THEN 1 ELSE pow_loop(1, base % R, exp)

mod_inverse(a) ==
    IF a = 0 THEN ErrV
    ELSE OkV(plonk_pow_mod(a, Limb0(wrapping_sub(R, 2))))

RECURSIVE hash_fold(_, _, _)
hash_fold(elements, i, res) ==
    IF i > Len(elements) THEN res
    ELSE hash_fold(elements, i + 1, wrapping_add(res, wrapping_mul(elements[i], i)))

hash_to_field(elements) == hash_fold(elements, 1, 0) % R

compute_challenges(proof) ==
    LET wc == proof.wire_commitments
        qc == proof.quotient_commitments
        beta == hash_to_field(<<wc[1].x, wc[1].y, wc[2].x, wc[2].y>>)
        gamma_elements == <<beta, wc[3].x, wc[3].y>>
        gamma == hash_to_field(gamma_elements)
        alpha == hash_to_field(<<gamma, proof.permutation_commitment.x,
                                 proof.permutation_commitment.y>>)
        zeta == hash_to_field(<<alpha, qc[1].x, qc[1].y, qc[2].x, qc[2].y,
                                qc[3].x, qc[3].y>>)
        v == hash_to_field(<<zeta, proof.wire_evaluations[1], proof.wire_evaluations[2],
                             proof.wire_evaluations[3], proof.permutation_evaluations[1],
                             proof.permutation_evaluations[2],
                             proof.permutation_evaluations[3], proof.quotient_evaluation>>)
    IN  [beta |-> beta, gamma |-> gamma, alpha |-> alpha, zeta |-> zeta, v |-> v,
         gamma_elements |-> gamma_elements]

compute_lagrange_basis(x, omega_i, domain_size, omega) ==
    LET x_n == plonk_pow_mod(x, domain_size)
        numerator == wrapping_mul(omega_i, wrapping_sub(x_n, 1))
        denominator == wrapping_mul(domain_size, wrapping_sub(x, omega_i))
    IN  IF denominator = 0 THEN ErrV
        ELSE OkV(wrapping_mul(numerator, mod_inverse(denominator).val) % R)

RECURSIVE public_input_loop(_, _, _, _, _, _)
public_input_step(public_inputs, i, res, omega_power, zeta, vk, lagrange) ==
    IF ~lagrange.ok THEN ErrV
    ELSE public_input_loop(
             public_inputs, i + 1,
             wrapping_add(res, wrapping_mul(public_inputs[i], lagrange.val)),
             wrapping_mul(omega_power, vk.omega) % R, zeta, vk)

public_input_loop(public_inputs, i, res, omega_power, zeta, vk) ==
    IF i > Len(public_inputs) THEN OkV(res % R)
    ELSE public_input_step(
             public_inputs, i, res, omega_power, zeta, vk,
             compute_lagrange_basis(zeta, omega_power, vk.domain_size, vk.omega))

compute_public_input_evaluation(public_inputs, zeta, vk) ==
    public_input_loop(public_inputs, 1, 0, 1, zeta, vk)

compute_gate_evaluation(proof) ==
    wrapping_sub(wrapping_mul(proof.wire_evaluations[1], proof.wire_evaluations[2]),
                 proof.wire_evaluations[3]) % R

compute_permutation_evaluation(proof, ch) ==
    LET z_omega == proof.permutation_evaluations[1]
        s1_zeta == proof.permutation_evaluations[2]
        numerator == wrapping_add(wrapping_mul(z_omega, ch.beta), ch.gamma)
        denominator == wrapping_add(wrapping_mul(s1_zeta, ch.beta), ch.gamma)
    IN  IF denominator = 0 THEN ErrV
        ELSE OkV(wrapping_mul(numerator, mod_inverse(denominator).val) % R)

(* compute_quotient_evaluation after its three evaluations *)
combine_constraints(ch, vk, pi_eval, gate_eval, perm_eval) ==
    IF ~pi_eval.ok \/ ~perm_eval.ok THEN ErrV
    ELSE
    LET quotient == wrapping_add(
                        wrapping_add(gate_eval, wrapping_mul(ch.alpha, perm_eval.val)),
                        wrapping_mul(wrapping_mul(ch.alpha, ch.alpha), pi_eval.val))
        vanishing == wrapping_sub(plonk_pow_mod(ch.zeta, vk.domain_size), 1)
    IN  IF vanishing = 0 THEN ErrV
        ELSE OkV(wrapping_mul(quotient, mod_inverse(vanishing).val) % R)

compute_quotient_evaluation(proof, ch, vk, public_inputs) ==
    combine_constraints(ch, vk,
                        compute_public_input_evaluation(public_inputs, ch.zeta, vk),
                        compute_gate_evaluation(proof),
                        compute_permutation_evaluation(proof, ch))

plonk_ec_add(p1, p2, calls, env) ==
    map_g1(RawCall(EC_ADD,
                   to_bytes(p1.x) \o to_bytes(p1.y) \o to_bytes(p2.x) \o to_bytes(p2.y),
                   calls, env))

plonk_ec_mul(point, scalar, calls, env) ==
    map_g1(RawCall(EC_MUL,
                   to_bytes(point.x) \o to_bytes(point.y) \o to_bytes(scalar),
                   calls, env))

negate_g1(p) ==
    IF p.x = 0 /\ p.y = 0 THEN p
    ELSE [x |-> p.x, y |-> wrapping_sub(Q, p.y)]

get_g1_generator == G1(1, 2)

ZeroG2 == [x |-> <<0, 0>>, y |-> <<0, 0>>]
ec_mul_g2(point, scalar) == IF scalar = 0 THEN ZeroG2 ELSE point
ec_sub_g2(p1, p2) == p1

(* .map(|ret| !U256::from_be_slice(&ret[0..32]).is_zero()).unwrap_or(false) *)
plonk_map_pairing(r) ==
    [val |-> IF r.ok THEN from_be_slice(SubSeq(r.ret, 1, WordLen)) # 0 ELSE FALSE,
     calls |-> r.calls]

plonk_pairing_check(g1_1, g2_1, g1_2, g2_2, calls, env) ==
    plonk_map_pairing(
        RawCall(EC_PAIRING,
                Flatten(<<
                    to_bytes(g1_1.x), to_bytes(g1_1.y),
                    to_bytes(g2_1.x[1]), to_bytes(g2_1.x[2]),
                    to_bytes(g2_1.y[1]), to_bytes(g2_1.y[2]),
                    to_bytes(g1_2.x), to_bytes(g1_2.y),
                    to_bytes(g2_2.x[1]), to_bytes(g2_2.x[2]),
                    to_bytes(g2_2.y[1]), to_bytes(g2_2.y[2])>>),
                calls, env))

(* A straight-line sequence of ec_mul / ec_add calls, each `?`-propagated:
   the first failing call ends the sequence. *)
Mul(dst, p, s) == [op |-> "mul", dst |-> dst, p |-> p, q |-> p, s |-> s]
Add(dst, p, q) == [op |-> "add", dst |-> dst, p |-> p, q |-> q, s |-> 0]

RECURSIVE run_ec(_, _, _, _, _)
run_ec_next(prog, i, regs, r, env) ==
    IF ~r.ok THEN [ok |-> FALSE, val |-> Infinity, calls |-> r.calls]
    ELSE run_ec(prog, i + 1, [regs EXCEPT ![prog[i].dst] = r.val], r.calls, env)

run_ec(prog, i, regs, calls, env) ==
    IF i > Len(prog) THEN [ok |-> TRUE, val |-> regs["result"], calls |-> calls]
    ELSE run_ec_next(prog, i, regs,
                     IF prog[i].op = "mul"
                     THEN plonk_ec_mul(regs[prog[i].p], prog[i].s, calls, env)
                     ELSE plonk_ec_add(regs[prog[i].p], regs[prog[i].q], calls, env),
                     env)

(* compute_linearization_commitment, with fold_quotient_commitments,
   compute_gate_contribution and compute_permutation_contribution inlined in
   call order. *)
compute_linearization_commitment(proof, ch, vk, calls, env) ==
    LET zeta_n_plus_2 == plonk_pow_mod(ch.zeta, vk.domain_size + 2)
        zeta_2n_plus_4 == plonk_pow_mod(plonk_pow_mod(ch.zeta, vk.domain_size + 2), 2)
        l_eval == proof.wire_evaluations[1]
        r_eval == proof.wire_evaluations[2]
        o_eval == proof.wire_evaluations[3]
        alpha_z_omega == wrapping_mul(ch.alpha, proof.permutation_evaluations[1]) % R
        regs == [n \in {"h0", "h1", "h2", "ql", "qr", "qm", "qo", "qk", "s1",
                        "h1_scaled", "h2_scaled", "temp", "result", "ql_contrib",
                        "qr_contrib", "qm_contrib", "qo_contrib", "temp1", "temp2",
                        "temp3", "gate_contrib", "perm_contrib"} |->
                    CASE n = "h0" -> proof.quotient_commitments[1]
                      [] n = "h1" -> proof.quotient_commitments[2]
                      [] n = "h2" -> proof.quotient_commitments[3]
                      [] n = "ql" -> vk.selector_commitments[1]
                      [] n = "qr" -> vk.selector_commitments[2]
                      [] n = "qm" -> vk.selector_commitments[3]
                      [] n = "qo" -> vk.selector_commitments[4]
                      [] n = "qk" -> vk.selector_commitments[5]
                      [] n = "s1" -> vk.permutation_commitments[1]
                      [] OTHER -> Infinity]
        prog == <<Mul("h1_scaled", "h1", zeta_n_plus_2),
                  Mul("h2_scaled", "h2", zeta_2n_plus_4),
                  Add("temp", "h0", "h1_scaled"),
                  Add("result", "temp", "h2_scaled"),
                  Mul("ql_contrib", "ql", l_eval),
                  Mul("qr_contrib", "qr", r_eval),
                  Mul("qm_contrib", "qm", wrapping_mul(l_eval, r_eval) % R),
                  Mul("qo_contrib", "qo", o_eval),
                  Add("temp1", "ql_contrib", "qr_contrib"),
                  Add("temp2", "temp1", "qm_contrib"),
                  Add("temp3", "temp2", "qo_contrib"),
                  Add("gate_contrib", "temp3", "qk"),
                  Add("result", "result", "gate_contrib"),
                  Mul("perm_contrib", "s1", alpha_z_omega),
                  Add("result", "result", "perm_contrib")>>
    IN  run_ec(prog, 1, regs, calls, env)

verify_kzg_opening(proof, point, evaluation, g2) == proof.x # 0 \/ proof.y # 0

(* What verify_proof_with_key did: the returned bool, whether it panicked,
   the challenges it derived and the precompile calls it made. *)
PlonkOut(ret, panicked, ch, calls) ==
    [ret |-> ret, panicked |-> panicked, challenges |-> ch, calls |-> calls]

(* batch_verify_commitments: [y]G_1, then F - [y]G_1, then the pairing check *)
commitments_pairing(pc, chs) == PlonkOut(pc.val, FALSE, chs, pc.calls)

commitments_after_sub(proof, ch, vk, chs, f_minus_y, env) ==
    IF ~f_minus_y.ok THEN PlonkOut(FALSE, FALSE, chs, f_minus_y.calls)
    ELSE commitments_pairing(
             plonk_pairing_check(f_minus_y.val, vk.kzg_g2, proof.opening_proof,
                                 ec_sub_g2(ec_mul_g2(vk.kzg_g2, ch.zeta), vk.kzg_g2),
                                 f_minus_y.calls, env),
             chs)

commitments_after_mul(proof, ch, vk, chs, y_g1, env) ==
    IF ~y_g1.ok THEN PlonkOut(FALSE, FALSE, chs, y_g1.calls)
    ELSE commitments_after_sub(
             proof, ch, vk, chs,
             plonk_ec_add(proof.opening_proof, negate_g1(y_g1.val), y_g1.calls, env), env)

batch_verify_commitments(proof, ch, vk, chs, calls, env) ==
    commitments_after_mul(
        proof, ch, vk, chs,
        plonk_ec_mul(get_g1_generator, proof.quotient_evaluation, calls, env), env)

(* batch_verify_openings: the linearization commitment, then
   ec_mul(opening_proof_at_omega, v).unwrap(), then ec_add, then
   verify_kzg_opening; when it returns true, batch_verify_commitments. *)
openings_after_add(proof, ch, vk, chs, combined_commitment, env) ==
    LET random == ch.v
        combined_eval ==
            wrapping_add(proof.quotient_evaluation,
                         wrapping_mul(random, proof.permutation_evaluations[1])) % R
        zeta_omega == wrapping_mul(ch.zeta, vk.omega) % R
        combined_point == wrapping_add(ch.zeta, wrapping_mul(random, zeta_omega)) % R
    IN  IF ~combined_commitment.ok
        THEN PlonkOut(FALSE, FALSE, chs, combined_commitment.calls)
        ELSE IF ~verify_kzg_opening(combined_commitment.val, combined_point,
                                    combined_eval, vk.kzg_g2)
        THEN PlonkOut(FALSE, FALSE, chs, combined_commitment.calls)
        ELSE batch_verify_commitments(proof, ch, vk, chs, combined_commitment.calls, env)

openings_after_mul(proof, ch, vk, chs, linearization, scaled, env) ==
    IF ~scaled.ok THEN PlonkOut(FALSE, TRUE, chs, scaled.calls)
    ELSE openings_after_add(
             proof, ch, vk, chs,
             plonk_ec_add(linearization.val, scaled.val, scaled.calls, env), env)

openings_after_linearization(proof, ch, vk, chs, linearization, env) ==
    IF ~linearization.ok THEN PlonkOut(FALSE, FALSE, chs, linearization.calls)
    ELSE openings_after_mul(
             proof, ch, vk, chs, linearization,
             plonk_ec_mul(proof.opening_proof_at_omega, ch.v, linearization.calls, env),
             env)

verify_openings_and_commitments(proof, ch, vk, chs, env) ==
    openings_after_linearization(
        proof, ch, vk, chs,
        compute_linearization_commitment(proof, ch, vk, <<>>, env), env)

(* verify_proof_with_key once the quotient evaluation is computed *)
verify_with_quotient(vk, proof, ch, chs, quotient_eval, env) ==
    IF ~quotient_eval.ok THEN PlonkOut(FALSE, FALSE, chs, <<>>)
    ELSE IF quotient_eval.val # proof.quotient_evaluation
    THEN PlonkOut(FALSE, FALSE, chs, <<>>)
    ELSE verify_openings_and_commitments(proof, ch, vk, chs, env)

(* verify_proof_with_key once the challenges are derived *)
verify_with_challenges(vk, proof, public_inputs, ch, env) ==
    verify_with_quotient(vk, proof, ch,
                         <<ch.beta, ch.gamma, ch.alpha, ch.zeta, ch.v, ch.gamma_elements>>,
                         compute_quotient_evaluation(proof, ch, vk, public_inputs), env)

(* PlonkVerifier::verify_proof_with_key *)
plonk_verify_proof_with_key(vk, proof, public_inputs, env) ==
    IF Len(public_inputs) # vk.num_public_inputs THEN PlonkOut(FALSE, FALSE, <<>>, <<>>)
    ELSE IF \E i \in 1 .. Len(public_inputs) : public_inputs[i] >= R
    THEN PlonkOut(FALSE, FALSE, <<>>, <<>>)
    ELSE verify_with_challenges(vk, proof, public_inputs, compute_challenges(proof), env)

-----------------------------------------------------------------------------
(* sp1/plonk/types.rs, sp1/plonk/verifier.rs *)

(* sp1::plonk::config and sp1::plonk::crypto::{get_verification_key,
   validate_verification_key}: a fixed selector, the mask that clears the
   top three bits of a word, and a key over the domain {1, -1}. *)
Sp1PlonkVerifierSelector == <<2, 1, 6, 1>>

FIELD_MASK == (U256Mod \div 8) - 1

plonk_get_verification_key ==
    [domain_size |-> 2,
     num_public_inputs |-> 2,
     selector_commitments |-> <<G1(560, 97), G1(441, 545), G1(63, 245), G1(388, 231),
                                G1(415, 669)>>,
     permutation_commitments |-> <<G1(493, 357), G1(195, 417), G1(238, 613)>>,
     kzg_g2 |-> G2(71, 72, 73, 74),
     omega |-> R - 1,
     coset_shift |-> 5]

RECURSIVE IsPowerOfTwo(_)
IsPowerOfTwo(n) == n = 1 \/ (n > 1 /\ n % 2 = 0 /\ IsPowerOfTwo(n \div 2))

validate_verification_key(vk) ==
    /\ IsPowerOfTwo(vk.domain_size)
    /\ vk.coset_shift # 1
    /\ (vk.coset_shift * vk.coset_shift) % R # vk.coset_shift

(* hash & FIELD_MASK, for a mask of the form 2^k - 1 *)
BitAnd(h, mask) == h % (mask + 1)

plonk_hash_public_values(public_values) ==
    BitAnd(from_be_slice(Sha256(public_values)), FIELD_MASK) % R

Sp1PlonkPublicInputs(program_vkey, public_values) ==
    <<from_be_slice(program_vkey), plonk_hash_public_values(public_values)>>

PlonkProofWords == 25

(* impl From<Sp1PlonkProof> for PlonkProof *)
PlonkProofFrom(w) ==
    [wire_commitments |-> <<G1(w[1], w[2]), G1(w[3], w[4]), G1(w[5], w[6])>>,
     permutation_commitment |-> G1(w[7], w[8]),
     quotient_commitments |-> <<G1(w[9], w[10]), G1(w[11], w[12]), G1(w[13], w[14])>>,
     wire_evaluations |-> <<w[15], w[16], w[17]>>,
     permutation_evaluations |-> <<w[18], w[19], w[20]>>,
     quotient_evaluation |-> w[21],
     opening_proof |-> G1(w[22], w[23]),
     opening_proof_at_omega |-> G1(w[24], w[25])]

(* the tail of Sp1PlonkVerifier::verify_proof_internal *)
plonk_verified(verification_key, public_signals, v) ==
    Outcome(IF v.panicked THEN Panic
            ELSE IF ~v.ret THEN Err("VerificationFailed")
            ELSE Ok("unit"),
            PlonkRun("sp1-plonk", verification_key, public_signals, v),
            v.calls)

plonk_verify_signals(verification_key, plonk_proof, public_signals, env) ==
    IF ~validate_verification_key(verification_key)
    THEN Outcome(Err("InvalidInitialization"), NoEngine, <<>>)
    ELSE plonk_verified(verification_key, public_signals,
                        plonk_verify_proof_with_key(verification_key, plonk_proof,
                                                    public_signals, env))

plonk_verify_proof_internal(program_vkey, public_values, proof_bytes, env) ==
    IF Len(proof_bytes) < SelectorLen THEN Outcome(Err("InvalidProofData"), NoEngine, <<>>)
    ELSE IF selector_prefix(proof_bytes) # Sp1PlonkVerifierSelector
    THEN Outcome(ErrSelector("WrongVerifierSelector", selector_prefix(proof_bytes),
                             Sp1PlonkVerifierSelector), NoEngine, <<>>)
    ELSE
    LET sp1_proof == abi_decode(SubSeq(proof_bytes, SelectorLen + 1, Len(proof_bytes)),
                                PlonkProofWords)
    IN  IF ~sp1_proof.ok THEN Outcome(Err("InvalidProofStructure"), NoEngine, <<>>)
        ELSE plonk_verify_signals(plonk_get_verification_key,
                                  PlonkProofFrom(sp1_proof.words),
                                  Sp1PlonkPublicInputs(program_vkey, public_values), env)

-----------------------------------------------------------------------------
(* sp1/plonk/crypto.rs: sha2evm and the Fiat-Shamir transcript *)

(* sha2evm::sha256: the precompile's digest, or 32 zero bytes when the call
   fails (unwrap_or) *)
sha2evm_sha256(data, sha_ok) == IF sha_ok THEN Sha256(data) ELSE ZeroWord

ChallengeIds == <<"gamma", "beta", "alpha", "zeta", "u">>

(* id.as_bytes() *)
as_bytes(id) ==
    CASE id = "gamma" -> <<1, 1>>
      [] id = "beta" -> <<1, 2>>
      [] id = "alpha" -> <<1, 3>>
      [] id = "zeta" -> <<1, 4>>
      [] id = "u" -> <<1, 5>>
      [] OTHER -> <<7, 7>>

(* Transcript::new: Challenge.position is zero-based *)
TranscriptNewValue(ids) ==
    [pos \in 1 .. Len(ids) |->
        [position |-> pos - 1, bindings |-> <<>>, value |-> ZeroWord,
         computed |-> FALSE, id |-> ids[pos]]]

(* Transcript::idx_of, zero-based *)
idx_of(ord, id) ==
    IF \E i \in 1 .. Len(ord) : ord[i].id = id
    THEN [ok |-> TRUE,
          val |-> (CHOOSE i \in 1 .. Len(ord) :
                      /\ ord[i].id = id
                      /\ \A j \in 1 .. (i - 1) : ord[j].id # id) - 1]
    ELSE [ok |-> FALSE, val |-> 0]

FsOk(v) == [ok |-> TRUE, val |-> v]
FsErr == [ok |-> FALSE, val |-> <<>>]

NoFsCall == [op |-> "none", id |-> "", bytes |-> <<>>, sha |-> "none"]
FsCall(op, id, bytes, sha) == [op |-> op, id |-> id, bytes |-> bytes, sha |-> sha]

(* to_fr_mod_r *)
to_fr_mod_r(bytes32) == from_be_slice(bytes32) % R

-----------------------------------------------------------------------------
(* sp1/plonk/crypto.rs: math *)

(* config::R_MOD: the scalar-field modulus r *)
R_MOD == R

(* (a % m * b % m) % m with the product taken by U256's wrapping `*` *)
mod_mul(a, b, m) == ((wrapping_mul(a % m, b)) % m) % m

RECURSIVE math_pow_loop(_, _, _, _)
math_pow_loop(res, base, exp, m) ==
    IF exp = 0 THEN res
    ELSE math_pow_loop(IF exp % 2 = 1 THEN mod_mul(res, base, m) ELSE res,
                       mod_mul(base, base, m), exp \div 2, m)

math_pow_mod(base, exp, m) == math_pow_loop(1, base % m, exp, m)

mod_inv(a, m) == IF a = 0 THEN ErrV ELSE OkV(math_pow_mod(a, m - 2, m))

(* prefix[i] of batch_invert, for the 1-based index i *)
RECURSIVE batch_prefix(_, _)
batch_prefix(fr, i) ==
    IF i = 1 THEN 1 ELSE mod_mul(batch_prefix(fr, i - 1), fr[i - 1], R_MOD)

(* the backward scan of batch_invert, from index i down to 1 *)
RECURSIVE batch_scan(_, _, _, _)
batch_scan(fr, i, acc, res) ==
    IF i = 0 THEN res
    ELSE batch_scan(fr, i - 1, mod_mul(acc, fr[i], R_MOD),
                    [res EXCEPT ![i] = mod_mul(acc, batch_prefix(fr, i), R_MOD)])

batch_inverted(fr, inv) ==
    IF ~inv.ok THEN ErrV
    ELSE OkV(batch_scan(fr, Len(fr), inv.val, [i \in 1 .. Len(fr) |-> 0]))

batch_invert(fr) ==
    IF Len(fr) = 0 THEN OkV(<<>>)
    ELSE batch_inverted(fr, mod_inv(mod_mul(batch_prefix(fr, Len(fr)), fr[Len(fr)], R_MOD),
                                    R_MOD))

-----------------------------------------------------------------------------
(* sp1/plonk/crypto.rs: ec *)

(* `let mut input = [0u8; 128]` : the calldata buffer.  Each
   `p.x.to_be_bytes::<32>().copy_from_slice(&mut input[0..32])` copies the
   buffer's bytes into the temporary array, so the buffer stays zero. *)
ZeroInput(words) == [i \in 1 .. words * WordLen |-> 0]

ec_add(p, q, calls, env) == map_g1(RawCall(EC_ADD, ZeroInput(4), calls, env))

ec_mul(p, s, calls, env) == map_g1(RawCall(EC_MUL, ZeroInput(3), calls, env))

(* ec::msm: for each (p, s) of points.zip(scalars) with s != 0,
   ps = ec_mul(p, s)?; acc = ec_add(acc, ps)? *)
(* Ok(!U256::from_be_slice(&ret[0..32]).is_zero()) after .map_err(|_| ())? *)
ec_map_pairing(r) ==
    [ok |-> r.ok,
     val |-> IF r.ok THEN from_be_slice(SubSeq(r.ret, 1, WordLen)) # 0 ELSE FALSE,
     calls |-> r.calls]

(* ec::pairing: pairs[i] is <<g1, g2>> *)
pairing(pairs, calls, env) ==
    ec_map_pairing(
        RawCall(EC_PAIRING,
                Flatten([i \in 1 .. Len(pairs) |->
                            Flatten(<<to_bytes(pairs[i][1].x), to_bytes(pairs[i][1].y),
                                      to_bytes(pairs[i][2].x[1]), to_bytes(pairs[i][2].x[2]),
                                      to_bytes(pairs[i][2].y[1]), to_bytes(pairs[i][2].y[2])>>)]),
                calls, env))

RECURSIVE msm_loop(_, _, _, _, _, _)
msm_after_add(points, scalars, i, t, env) ==
    IF ~t.ok THEN [ok |-> FALSE, val |-> Infinity, calls |-> t.calls]
    ELSE msm_loop(points, scalars, i + 1, t.val, t.calls, env)

msm_after_mul(points, scalars, i, acc, ps, env) ==
    IF ~ps.ok THEN [ok |-> FALSE, val |-> Infinity, calls |-> ps.calls]
    ELSE msm_after_add(points, scalars, i, ec_add(acc, ps.val, ps.calls, env), env)

msm_loop(points, scalars, i, acc, calls, env) ==
    IF i > Len(points) \/ i > Len(scalars) THEN [ok |-> TRUE, val |-> acc, calls |-> calls]
    ELSE IF scalars[i] = 0 THEN msm_loop(points, scalars, i + 1, acc, calls, env)
    ELSE msm_after_mul(points, scalars, i, acc,
                       ec_mul(points[i], scalars[i], calls, env), env)

msm(points, scalars, env) == msm_loop(points, scalars, 1, Infinity, <<>>, env)

-----------------------------------------------------------------------------
(* Inputs of the external calls *)

ControlRoots == {<<0, 1, 2, 3>>, <<5, 0, 7, 1>>}
ControlIds == {<<0, 0, 1, 2>>, to_bytes(R), <<7, 7, 7, 7>>}
ImageIds == {<<1, 1, 1, 1>>, <<2, 0, 0, 5>>}
JournalDigests == {<<3, 3, 0, 0>>, ZeroWord}
ClaimDigests == {<<4, 0, 4, 0>>,
                 ReceiptClaimDigest(ReceiptClaimOk(<<1, 1, 1, 1>>, <<3, 3, 0, 0>>))}
ProgramVkeys == {<<0, 0, 1, 2>>, to_bytes(R), <<7, 7, 7, 7>>}
PublicValues == {<<>>, <<1, 2, 3>>}

(* Proof words (a, b, c): a = G, a = the point at infinity, a = 3G with an
   unreduced y, each with c = 2G. *)
Proofs == {<<1, 2, 3, 4, 5, 6, 560, 97>>,
           <<0, 0, 3, 4, 5, 6, 560, 97>>,
           <<441, 545 + 5 * Q, 3, 4, 5, 6, 560, 97>>}

FlipFirst(sel) == [sel EXCEPT ![1] = (sel[1] + 1) % ByteBase]

Payloads ==
    {abi_encode(pr) : pr \in Proofs}
    \cup {<<>>, SubSeq(abi_encode(<<1, 2, 3, 4, 5, 6, 560, 97>>), 1, 8 * WordLen - 1)}

(* PLONK proof words: one whose quotient evaluation is the value the engine
   computes for the public inputs (10, 205), one whose quotient evaluation
   is not, and one whose opening proof at omega is not a curve point. *)
PlonkProofs ==
    {<<490, 322, 263, 372, 642, 364, 630, 19, 432, 640, 486, 630, 87, 126,
       3, 4, 5, 6, 7, 8, qe, 560, 97, 441, wy>> : qe \in {158, 0}, wy \in {545, 546}}

(* PLONK proof words whose challenge zeta is a domain point: 1 and 642
   (the powers of omega = 642), 177 and 465 (the powers of omega = 177, a
   cube root of unity); the quotient evaluation is 0 or the value the
   engine computes at zeta = 465 for the public inputs (1, 2, 3). *)
DomainPointProofs ==
    {<<490, 322, 263, 372, 642, 364, 630, 19, 432, 640, qc[1], qc[2], qc[3], qc[4],
       3, 4, 5, 6, 7, 8, qe, 560, 97, 441, 545>> :
        qc \in {<<1, 689, 78, 668>>, <<1, 689, 664, 475>>,
                <<1, 2, 50, 439>>, <<1, 2, 40, 305>>},
        qe \in {36, 0}}

(* Verification keys handed to the engine: the SP1 key over the domain
   {1, -1} and one over the domain of the cube roots of unity with three
   public inputs *)
PlonkKeys ==
    {plonk_get_verification_key,
     [plonk_get_verification_key EXCEPT !.domain_size = 3, !.num_public_inputs = 3,
                                        !.omega = 177]}

PlonkPayloads ==
    {abi_encode(pr) : pr \in PlonkProofs}
    \cup {<<>>, abi_encode(<<1, 2, 3, 4, 5, 6, 560, 97>>)}

(* Seals for a verifier expecting `sel`: too short, wrong selector, and the
   right selector before each payload. *)
SealsOf(sel, payloads) ==
    {SubSeq(sel, 1, k) : k \in 0 .. (SelectorLen - 1)}
    \cup {s \o pl : s \in {sel, FlipFirst(sel)}, pl \in payloads}

Seals(sel) == SealsOf(sel, Payloads)

(* Inputs of the engines when they are called directly: public-signal
   vectors of every length up to five, in and out of the field. *)
SignalVectors == {<<>>, <<10>>, <<10, 205>>, <<10, R>>, <<R + 1, 205>>, <<1, 2, 3>>,
                  <<1, 2, 3, 4, 5>>, <<1, 2, 3, 4, R>>}
Groth16Keys == {get_verification_key, Sp1VerificationKey}

(* Inputs of ec::msm: points and scalars of equal and of unequal lengths,
   with zero scalars among them *)
MsmPoints == {<<>>, <<G1(1, 2)>>, <<G1(1, 2), G1(560, 97)>>,
              <<G1(1, 2), G1(560, 97), G1(441, 545)>>}
MsmScalars == {<<>>, <<1>>, <<2, 3>>, <<0, 5>>, <<4, 0, 6>>, <<0, 0>>}

(* Inputs of the transcript operations *)
MaxBindings == 2
BindIds == {"gamma", "beta", "x"}
ComputeIds == {"gamma", "beta", "alpha", "x"}
BindBytes == {<<1>>, <<2, 3>>}

-----------------------------------------------------------------------------
(* The external calls.  A call is made when no call is in progress and its
   outcome stays visible until the call returns. *)

NoCall == [op |-> "none", seal |-> <<>>, x |-> <<>>, y |-> <<>>]
Call(op, seal, x, y) == [op |-> op, seal |-> seal, x |-> x, y |-> y]

Idle == call.op = "none"

Finish(c, out) ==
    /\ call' = c
    /\ result' = out.result
    /\ engine' = out.engine
    /\ oracle' = out.oracle

(* initialize without the AlreadyInitialized guard *)
InitializeUnguarded(control_root, control_id) ==
    /\ Idle
    /\ control_root_0' = split_digest(control_root)[1]
    /\ control_root_1' = split_digest(control_root)[2]
    /\ bn254_control_id' = control_id
    /\ selector' = calculate_selector(control_root, control_id)
    /\ initialized' = TRUE
    /\ Finish(Call("initialize", <<>>, control_root, control_id),
              Outcome(Ok("unit"), NoEngine, <<>>))
    /\ UNCHANGED fsVars

(* verify without the initialization guard *)
VerifyUnguarded(seal, image_id, journal_digest, env) ==
    /\ Idle
    /\ Finish(Call("verify", seal, image_id, journal_digest),
              verify_integrity_internal(
                  seal, ReceiptClaimDigest(ReceiptClaimOk(image_id, journal_digest)), env))
    /\ UNCHANGED <<storage, fsVars>>

(* verify handing the journal digest itself to verify_integrity_internal *)
VerifyJournalAsClaim(seal, image_id, journal_digest, env) ==
    /\ Idle
    /\ Finish(Call("verify", seal, image_id, journal_digest),
              IF ~initialized THEN Outcome(Err("InvalidInitialization"), NoEngine, <<>>)
              ELSE verify_integrity_internal(seal, journal_digest, env))
    /\ UNCHANGED <<storage, fsVars>>

(* initialize refusing a bn254_control_id outside the scalar field *)
InitializeRangeChecked(control_root, control_id) ==
    /\ Idle
    /\ IF initialized \/ from_be_slice(control_id) >= R
       THEN /\ Finish(Call("initialize", <<>>, control_root, control_id),
                      Outcome(Err(IF initialized THEN "AlreadyInitialized"
                                  ELSE "InvalidInitialization"), NoEngine, <<>>))
            /\ UNCHANGED storage
       ELSE /\ control_root_0' = split_digest(control_root)[1]
            /\ control_root_1' = split_digest(control_root)[2]
            /\ bn254_control_id' = control_id
            /\ selector' = calculate_selector(control_root, control_id)
            /\ initialized' = TRUE
            /\ Finish(Call("initialize", <<>>, control_root, control_id),
                      Outcome(Ok("unit"), NoEngine, <<>>))
    /\ UNCHANGED fsVars

(* RiscZeroVerifier::initialize *)
Initialize(control_root, control_id) ==
    /\ Idle
    /\ IF initialized
       THEN /\ Finish(Call("initialize", <<>>, control_root, control_id),
                      Outcome(Err("AlreadyInitialized"), NoEngine, <<>>))
            /\ UNCHANGED storage
       ELSE /\ control_root_0' = split_digest(control_root)[1]
            /\ control_root_1' = split_digest(control_root)[2]
            /\ bn254_control_id' = control_id
            /\ selector' = calculate_selector(control_root, control_id)
            /\ initialized' = TRUE
            /\ Finish(Call("initialize", <<>>, control_root, control_id),
                      Outcome(Ok("unit"), NoEngine, <<>>))
    /\ UNCHANGED fsVars

(* RiscZeroVerifier::verify *)
Verify(seal, image_id, journal_digest, env) ==
    /\ Idle
    /\ Finish(Call("verify", seal, image_id, journal_digest),
              IF ~initialized THEN Outcome(Err("InvalidInitialization"), NoEngine, <<>>)
              ELSE verify_integrity_internal(
                       seal, ReceiptClaimDigest(ReceiptClaimOk(image_id, journal_digest)),
                       env))
    /\ UNCHANGED <<storage, fsVars>>

(* RiscZeroVerifier::verify_integrity *)
VerifyIntegrity(receipt_seal, receipt_claim_digest, env) ==
    /\ Idle
    /\ Finish(Call("verify_integrity", receipt_seal, receipt_claim_digest, <<>>),
              IF ~initialized THEN Outcome(Err("InvalidInitialization"), NoEngine, <<>>)
              ELSE verify_integrity_internal(receipt_seal, receipt_claim_digest, env))
    /\ UNCHANGED <<storage, fsVars>>

(* Sp1Verifier::verify_proof *)
Sp1VerifyProof(program_vkey, public_values, proof_bytes, env) ==
    /\ Idle
    /\ Finish(Call("sp1_verify_proof", proof_bytes, program_vkey, public_values),
              sp1_verify_proof_internal(program_vkey, public_values, proof_bytes, env))
    /\ UNCHANGED <<storage, fsVars>>

(* Sp1PlonkVerifier::verify_proof *)
Sp1PlonkVerifyProof(program_vkey, public_values, proof_bytes, env) ==
    /\ Idle
    /\ Finish(Call("sp1_plonk_verify_proof", proof_bytes, program_vkey, public_values),
              plonk_verify_proof_internal(program_vkey, public_values, proof_bytes, env))
    /\ UNCHANGED <<storage, fsVars>>

(* what a direct caller of Groth16Verifier::verify_proof_with_key gets *)
groth16_returned(vk, a, b, c, public_signals, v) ==
    Outcome(Ok(IF v.ret THEN "true" ELSE "false"),
            EngineRun("groth16", vk, a, b, c, public_signals, v.ret),
            v.calls)

(* Groth16Verifier::verify_proof_with_key, called directly *)
Groth16VerifyProofWithKey(vk, w, public_signals, env) ==
    /\ Idle
    /\ Finish(Call("groth16_verify_proof_with_key", <<>>, <<>>, <<>>),
              groth16_returned(
                  vk, <<w[1], w[2]>>, <<<<w[3], w[4]>>, <<w[5], w[6]>>>>, <<w[7], w[8]>>,
                  public_signals,
                  verify_proof_with_key(
                      vk, <<w[1], w[2]>>, <<<<w[3], w[4]>>, <<w[5], w[6]>>>>, <<w[7], w[8]>>,
                      public_signals, env)))
    /\ UNCHANGED <<storage, fsVars>>

(* what a direct caller of PlonkVerifier::verify_proof_with_key gets *)
plonk_returned(vk, public_inputs, v) ==
    Outcome(IF v.panicked THEN Panic ELSE Ok(IF v.ret THEN "true" ELSE "false"),
            PlonkRun("plonk", vk, public_inputs, v),
            v.calls)

(* PlonkVerifier::verify_proof_with_key, called directly *)
PlonkVerifyProofWithKey(vk, w, public_inputs, env) ==
    /\ Idle
    /\ Finish(Call("plonk_verify_proof_with_key", <<>>, <<>>, <<>>),
              plonk_returned(vk, public_inputs,
                             plonk_verify_proof_with_key(vk, PlonkProofFrom(w),
                                                         public_inputs, env)))
    /\ UNCHANGED <<storage, fsVars>>

(* what a caller of ec::msm gets *)
msm_returned(r) ==
    Outcome(IF r.ok THEN Ok(r.val) ELSE Err("unit"), NoEngine, r.calls)

(* ec::msm *)
EcMsm(points, scalars, env) ==
    /\ Idle
    /\ Finish(Call("msm", <<>>, points, scalars), msm_returned(msm(points, scalars, env)))
    /\ UNCHANGED <<storage, fsVars>>

(* what a caller of ec::pairing gets *)
pairing_returned(r) ==
    Outcome(IF r.ok THEN Ok(IF r.val THEN "true" ELSE "false") ELSE Err("unit"),
            NoEngine, r.calls)

(* ec::pairing *)
EcPairing(pairs, env) ==
    /\ Idle
    /\ Finish(Call("pairing", <<>>, pairs, <<>>),
              pairing_returned(pairing(pairs, <<>>, env)))
    /\ UNCHANGED <<storage, fsVars>>

math_returned(r) == Outcome(IF r.ok THEN Ok(r.val) ELSE Err("unit"), NoEngine, <<>>)

(* math::mod_mul(a, b, m) *)
MathModMul(a, b, m) ==
    /\ Idle
    /\ Finish(Call("mod_mul", <<>>, <<a, b>>, m), math_returned(OkV(mod_mul(a, b, m))))
    /\ UNCHANGED <<storage, fsVars>>

(* math::mod_inv(a, r) *)
MathModInv(a) ==
    /\ Idle
    /\ Finish(Call("mod_inv", <<>>, a, R), math_returned(mod_inv(a, R)))
    /\ UNCHANGED <<storage, fsVars>>

(* PlonkVerifier::mod_inverse(a) *)
PlonkModInverse(a) ==
    /\ Idle
    /\ Finish(Call("mod_inverse", <<>>, a, R), math_returned(mod_inverse(a)))
    /\ UNCHANGED <<storage, fsVars>>

(* math::batch_invert(v) *)
MathBatchInvert(v) ==
    /\ Idle
    /\ Finish(Call("batch_invert", <<>>, v, R_MOD), math_returned(batch_invert(v)))
    /\ UNCHANGED <<storage, fsVars>>

(* The call returns to its caller. *)
Return ==
    /\ ~Idle
    /\ call' = NoCall
    /\ result' = Ok("unit")
    /\ engine' = NoEngine
    /\ oracle' = <<>>
    /\ UNCHANGED <<storage, fsVars>>

(* Transcript::new *)
TranscriptNew(ids) ==
    /\ ordered' = TranscriptNewValue(ids)
    /\ last_pos' = -1
    /\ fs_call' = FsCall("new", "", <<>>, "none")
    /\ fs_ret' = FsOk(<<>>)
    /\ UNCHANGED <<storage, callVars>>

(* bind without the test of the slot's computed flag *)
TranscriptBindUnguarded(id, bytes) ==
    LET idx == idx_of(ordered, id)
    IN  /\ fs_call' = FsCall("bind", id, bytes, "none")
        /\ IF ~idx.ok
           THEN /\ fs_ret' = FsErr
                /\ UNCHANGED ordered
           ELSE /\ Len(ordered[idx.val + 1].bindings) < MaxBindings
                /\ ordered' = [ordered EXCEPT ![idx.val + 1].bindings = Append(@, bytes)]
                /\ fs_ret' = FsOk(<<>>)
        /\ UNCHANGED <<last_pos, storage, callVars>>

(* Transcript::bind *)
TranscriptBind(id, bytes) ==
    LET idx == idx_of(ordered, id)
    IN  /\ fs_call' = FsCall("bind", id, bytes, "none")
        /\ IF ~idx.ok \/ ordered[idx.val + 1].computed
           THEN /\ fs_ret' = FsErr
                /\ UNCHANGED ordered
           ELSE /\ Len(ordered[idx.val + 1].bindings) < MaxBindings
                /\ ordered' = [ordered EXCEPT ![idx.val + 1].bindings = Append(@, bytes)]
                /\ fs_ret' = FsOk(<<>>)
        /\ UNCHANGED <<last_pos, storage, callVars>>

(* compute hashing the name and the bindings without the preceding value *)
TranscriptComputeWithoutPrev(id, sha_ok) ==
    LET idx == idx_of(ordered, id)
    IN  IF ~idx.ok
        THEN /\ fs_call' = FsCall("compute", id, <<>>, "none")
             /\ fs_ret' = FsErr
             /\ UNCHANGED <<ordered, last_pos, storage, callVars>>
        ELSE IF ordered[idx.val + 1].computed
        THEN /\ fs_call' = FsCall("compute", id, <<>>, "none")
             /\ fs_ret' = FsOk(ordered[idx.val + 1].value)
             /\ UNCHANGED <<ordered, last_pos, storage, callVars>>
        ELSE IF idx.val # last_pos + 1
        THEN /\ fs_call' = FsCall("compute", id, <<>>, "none")
             /\ fs_ret' = FsErr
             /\ UNCHANGED <<ordered, last_pos, storage, callVars>>
        ELSE LET hasher_input ==
                     as_bytes(id)
                     \o Flatten(ordered[idx.val + 1].bindings)
                 h == sha2evm_sha256(hasher_input, sha_ok)
             IN  /\ fs_call' = FsCall("compute", id, hasher_input,
                                      IF sha_ok THEN "ok" ELSE "failed")
                 /\ ordered' = [ordered EXCEPT ![idx.val + 1].value = h,
                                               ![idx.val + 1].computed = TRUE]
                 /\ last_pos' = idx.val
                 /\ fs_ret' = FsOk(h)
                 /\ UNCHANGED <<storage, callVars>>

(* compute without the test that the slot is the one after last_pos *)
TranscriptComputeAnySlot(id, sha_ok) ==
    LET idx == idx_of(ordered, id)
    IN  IF ~idx.ok
        THEN /\ fs_call' = FsCall("compute", id, <<>>, "none")
             /\ fs_ret' = FsErr
             /\ UNCHANGED <<ordered, last_pos, storage, callVars>>
        ELSE IF ordered[idx.val + 1].computed
        THEN /\ fs_call' = FsCall("compute", id, <<>>, "none")
             /\ fs_ret' = FsOk(ordered[idx.val + 1].value)
             /\ UNCHANGED <<ordered, last_pos, storage, callVars>>
        ELSE LET hasher_input ==
                     as_bytes(id)
                     \o (IF last_pos >= 0 THEN ordered[last_pos + 1].value ELSE <<>>)
                     \o Flatten(ordered[idx.val + 1].bindings)
                 h == sha2evm_sha256(hasher_input, sha_ok)
             IN  /\ fs_call' = FsCall("compute", id, hasher_input,
                                      IF sha_ok THEN "ok" ELSE "failed")
                 /\ ordered' = [ordered EXCEPT ![idx.val + 1].value = h,
                                               ![idx.val + 1].computed = TRUE]
                 /\ last_pos' = idx.val
                 /\ fs_ret' = FsOk(h)
                 /\ UNCHANGED <<storage, callVars>>

(* Transcript::compute; sha_ok is whether the SHA-256 precompile call,
   if one is made, succeeds *)
TranscriptCompute(id, sha_ok) ==
    LET idx == idx_of(ordered, id)
    IN  IF ~idx.ok
        THEN /\ fs_call' = FsCall("compute", id, <<>>, "none")
             /\ fs_ret' = FsErr
             /\ UNCHANGED <<ordered, last_pos, storage, callVars>>
        ELSE IF ordered[idx.val + 1].computed
        THEN /\ fs_call' = FsCall("compute", id, <<>>, "none")
             /\ fs_ret' = FsOk(ordered[idx.val + 1].value)
             /\ UNCHANGED <<ordered, last_pos, storage, callVars>>
        ELSE IF idx.val # last_pos + 1
        THEN /\ fs_call' = FsCall("compute", id, <<>>, "none")
             /\ fs_ret' = FsErr
             /\ UNCHANGED <<ordered, last_pos, storage, callVars>>
        ELSE LET hasher_input ==
                     as_bytes(id)
                     \o (IF last_pos >= 0 THEN ordered[last_pos + 1].value ELSE <<>>)
                     \o Flatten(ordered[idx.val + 1].bindings)
                 h == sha2evm_sha256(hasher_input, sha_ok)
             IN  /\ fs_call' = FsCall("compute", id, hasher_input,
                                      IF sha_ok THEN "ok" ELSE "failed")
                 /\ ordered' = [ordered EXCEPT ![idx.val + 1].value = h,
                                               ![idx.val + 1].computed = TRUE]
                 /\ last_pos' = idx.val
                 /\ fs_ret' = FsOk(h)
                 /\ UNCHANGED <<storage, callVars>>

Init ==
    /\ control_root_0 = [i \in 1 .. HalfLen |-> 0]
    /\ control_root_1 = [i \in 1 .. HalfLen |-> 0]
    /\ bn254_control_id = ZeroWord
    /\ selector = [i \in 1 .. SelectorLen |-> 0]
    /\ initialized = FALSE
    /\ call = NoCall
    /\ result = Ok("unit")
    /\ engine = NoEngine
    /\ oracle = <<>>
    /\ ordered = TranscriptNewValue(ChallengeIds)
    /\ last_pos = -1
    /\ fs_call = NoFsCall
    /\ fs_ret = FsOk(<<>>)

Next ==
    \/ \E cr \in ControlRoots, id \in ControlIds : Initialize(cr, id)
    \/ \E seal \in Seals(selector), im \in ImageIds, jd \in JournalDigests, env \in Envs :
           Verify(seal, im, jd, env)
    \/ \E seal \in Seals(selector), cd \in ClaimDigests, env \in Envs :
           VerifyIntegrity(seal, cd, env)
    \/ \E vkey \in ProgramVkeys, pv \in PublicValues,
          seal \in Seals(Sp1VerifierSelector), env \in Envs :
           Sp1VerifyProof(vkey, pv, seal, env)
    \/ \E vkey \in ProgramVkeys, pv \in PublicValues,
          seal \in SealsOf(Sp1PlonkVerifierSelector, PlonkPayloads), env \in Envs :
           Sp1PlonkVerifyProof(vkey, pv, seal, env)
    \/ Return

Spec == Init /\ [][Next]_vars

(* The two engines and ec::msm on their own, over every input vector. *)
(* Inputs of ec::pairing: no pair, one pair and two pairs *)
PairLists ==
    {<<>>, <<<<G1(1, 2), G2(71, 72, 73, 74)>>>>,
     <<<<G1(1, 2), G2(71, 72, 73, 74)>>, <<G1(560, 97), G2(75, 76, 77, 78)>>>>}

NextEngine ==
    \/ \E pairs \in PairLists, env \in Envs : EcPairing(pairs, env)
    \/ \E vk \in Groth16Keys, w \in Proofs, sigs \in SignalVectors, env \in Envs :
           Groth16VerifyProofWithKey(vk, w, sigs, env)
    \/ \E vk \in PlonkKeys, w \in PlonkProofs \cup DomainPointProofs,
          sigs \in SignalVectors, env \in Envs :
           PlonkVerifyProofWithKey(vk, w, sigs, env)
    \/ \E points \in MsmPoints, scalars \in MsmScalars, env \in Envs :
           EcMsm(points, scalars, env)
    \/ Return

SpecEngine == Init /\ [][NextEngine]_vars

(* The transcript on its own: any sequence of new, bind and compute. *)
NextFS ==
    \/ TranscriptNew(ChallengeIds)
    \/ \E id \in BindIds, bytes \in BindBytes : TranscriptBind(id, bytes)
    \/ \E id \in ComputeIds, sha_ok \in BOOLEAN : TranscriptCompute(id, sha_ok)

SpecFS == Init /\ [][NextFS]_vars

(* The field arithmetic on its own: every residue, and every vector of
   up to MaxLen elements drawn from BatchElements. *)
MaxLen == 3
BatchElements == {0, 1, 2, 3, 100, 642}
BatchVectors ==
    UNION {[1 .. n -> BatchElements] : n \in 0 .. MaxLen}

(* Operands of mod_mul: small ones, the square root of the word range and
   its neighbours, the ends of the field and of the word range *)
MulOperands == {0, 1, 2, 63, 64, 65, R - 1, R, U256Mod - 1}
Moduli == {1, 7, R, U256Mod - 1}

NextMath ==
    \/ \E a \in MulOperands, b \in MulOperands, m \in Moduli : MathModMul(a, b, m)
    \/ \E a \in 0 .. R - 1 : MathModInv(a)
    \/ \E a \in 0 .. R - 1 : PlonkModInverse(a)
    \/ \E v \in BatchVectors : MathBatchInvert(v)
    \/ Return

SpecMath == Init /\ [][NextMath]_vars

-----------------------------------------------------------------------------
(* Properties *)

LastCall == oracle[Len(oracle)]
PairingReached == oracle # <<>> /\ LastCall.addr = EC_PAIRING
PairingCount == Cardinality({i \in 1 .. Len(oracle) : oracle[i].addr = EC_PAIRING})
WordAt(bs, k) == from_be_slice(SubSeq(bs, (k - 1) * WordLen + 1, k * WordLen))
OutOfField(sigs) == \E i \in 1 .. Len(sigs) : sigs[i] >= R
IsGroth16Run == engine.called /\ engine.system \in {"risc0", "sp1", "groth16"}
IsPlonkRun == engine.called /\ engine.system \in {"sp1-plonk", "plonk"}
IsDispatcherRun == engine.called /\ engine.system \in {"risc0", "sp1"}
ProofA == G1(engine.a[1], engine.a[2])
ProofB == [x |-> engine.b[1], y |-> engine.b[2]]
ProofC == G1(engine.c[1], engine.c[2])

(* The pairing calldata for the pairs (-A, B), (alpha, beta), (vk_x, gamma),
   (C, delta), vk_x being the point the last EcAdd call returned. *)
ExpectedPairingInput ==
    PairingCalldata(negate(ProofA), ProofB, engine.vk.alpha1, engine.vk.beta2,
                    g1_from_bytes(oracle[Len(oracle) - 1].ret), engine.vk.gamma2,
                    ProofC, engine.vk.delta2)

RiscZeroCall == call.op \in {"verify", "verify_integrity"}
DispatcherReached ==
    \/ call.op \in {"sp1_verify_proof", "sp1_plonk_verify_proof"}
    \/ RiscZeroCall /\ initialized
ExpectedSelector ==
    CASE RiscZeroCall -> selector
      [] call.op = "sp1_verify_proof" -> Sp1VerifierSelector
      [] call.op = "sp1_plonk_verify_proof" -> Sp1PlonkVerifierSelector
      [] OTHER -> <<>>
SealWords == IF call.op = "sp1_plonk_verify_proof" THEN PlonkProofWords ELSE 8
SelectorMatches ==
    /\ Len(call.seal) >= SelectorLen
    /\ SubSeq(call.seal, 1, SelectorLen) = ExpectedSelector
SelectorDiffers ==
    /\ Len(call.seal) >= SelectorLen
    /\ SubSeq(call.seal, 1, SelectorLen) # ExpectedSelector
PayloadDecodes ==
    abi_decode(SubSeq(call.seal, SelectorLen + 1, Len(call.seal)), SealWords).ok

(* C1: the Groth16 engine returns true only if its single four-pair pairing
   call, over (-A, B), (alpha, beta), (vk_x, gamma), (C, delta) in that
   order, succeeded with a nonzero result; when the pairing call fails or
   its result is zero the engine returns false. *)
C1_PairingResultDecides ==
    IsGroth16Run =>
        /\ engine.ret =>
              /\ PairingReached
              /\ PairingCount = 1
              /\ LastCall.input = ExpectedPairingInput
              /\ LastCall.ok
              /\ from_be_slice(LastCall.ret) # 0
        /\ (PairingReached /\ (~LastCall.ok \/ from_be_slice(LastCall.ret) = 0))
              => ~engine.ret

(* C2: when the number of public signals does not fit the key or a public
   signal is >= r, the Groth16 engine returns false without any precompile
   call, and the PLONK engine returns false before deriving a challenge and
   without any precompile call. *)
C2_PrechecksPrecedeOracle ==
    /\ (IsGroth16Run /\ (\/ Len(engine.public_signals) + 1 # Len(engine.vk.ic)
                         \/ OutOfField(engine.public_signals)))
          => (~engine.ret /\ oracle = <<>>)
    /\ (IsPlonkRun /\ (\/ Len(engine.public_signals) # engine.vk.num_public_inputs
                       \/ OutOfField(engine.public_signals)))
          => (~engine.ret /\ ~engine.panicked /\ engine.challenges = <<>>
              /\ oracle = <<>>)

C2_Witness ==
    /\ engine.called /\ engine.system = "groth16"
    /\ Len(engine.public_signals) + 1 # Len(engine.vk.ic)
    /\ ~OutOfField(engine.public_signals)
    /\ Len(engine.public_signals) > 0
    /\ result = Ok("false")
    /\ oracle = <<>>

(* C3: the first G1 element of the pairing call is -A for a RISC Zero seal
   and A itself for an SP1 Groth16 seal. *)
C3_NegateAChosenByDispatcher ==
    (IsDispatcherRun /\ PairingReached) =>
        LET first == G1(WordAt(LastCall.input, 1), WordAt(LastCall.input, 2))
        IN  IF engine.system = "risc0" THEN first = negate(ProofA) ELSE first = ProofA

(* C4: once the initialized flag is set, every initialize call returns
   AlreadyInitialized and no call changes the five stored fields. *)
C4_InitializeOnce ==
    [][initialized =>
          /\ storage' = storage
          /\ (call'.op = "initialize" => result' = Err("AlreadyInitialized"))]_vars

C4_Witness ==
    /\ initialized
    /\ call.op = "initialize"
    /\ result = Err("AlreadyInitialized")
    /\ call.y # bn254_control_id
    /\ split_digest(call.x)[1] # control_root_0

(* C5: before a successful initialize, verify and verify_integrity return
   InvalidInitialization for every seal and make no precompile call. *)
C5_UninitializedRejects ==
    (~initialized /\ RiscZeroCall) =>
        /\ result = Err("InvalidInitialization")
        /\ ~engine.called
        /\ oracle = <<>>

C5_Witness ==
    /\ ~initialized
    /\ call.op = "verify"
    /\ Len(call.seal) > SelectorLen
    /\ PayloadDecodes
    /\ result = Err("InvalidInitialization")

(* C6: a seal of at least four bytes whose first four bytes differ from the
   expected selector gets the selector-mismatch error of its dispatcher,
   carrying the received and the expected selector, whatever follows the
   first four bytes, before any decoding and any precompile call. *)
C6_SelectorMismatch ==
    (DispatcherReached /\ SelectorDiffers) =>
        /\ result = ErrSelector(IF RiscZeroCall THEN "SelectorMismatch"
                                ELSE "WrongVerifierSelector",
                                SubSeq(call.seal, 1, SelectorLen), ExpectedSelector)
        /\ ~engine.called
        /\ oracle = <<>>

C6_Witness ==
    /\ call.op = "sp1_verify_proof"
    /\ SelectorDiffers
    /\ ~PayloadDecodes
    /\ result.err = "WrongVerifierSelector"
    /\ result.received = SubSeq(call.seal, 1, SelectorLen)

(* C7: each of the three dispatchers returns InvalidProofData for a seal
   shorter than four bytes and for a seal whose selector matches but whose
   remaining bytes do not decode. *)
C7_InvalidProofData ==
    DispatcherReached =>
        /\ Len(call.seal) < SelectorLen => result = Err("InvalidProofData")
        /\ (SelectorMatches /\ ~PayloadDecodes) => result = Err("InvalidProofData")

(* C8: when the engine rejects because a public signal built by the
   dispatcher is >= r, the dispatcher reports InvalidProofData. *)
C8_OutOfFieldIsInvalidProofData ==
    (IsDispatcherRun /\ OutOfField(engine.public_signals)) =>
        result = Err("InvalidProofData")

(* C9: verify and verify_integrity return Ok(true) exactly when the engine
   returned true, VerificationFailed when it returned false, and never
   Ok(false); verify_proof of the SP1 Groth16 verifier returns Ok(())
   exactly when the engine returned true and VerificationFailed when it
   returned false. *)
C9_DispatcherFollowsEngine ==
    /\ RiscZeroCall =>
          /\ result # Ok("false")
          /\ (result.tag = "Ok") <=> (engine.called /\ engine.ret)
          /\ result.tag = "Ok" => result = Ok("true")
          /\ (engine.called /\ ~engine.ret) => result = Err("VerificationFailed")
    /\ call.op = "sp1_verify_proof" =>
          /\ (result.tag = "Ok") <=> (engine.called /\ engine.ret)
          /\ result.tag = "Ok" => result = Ok("unit")
          /\ (engine.called /\ ~engine.ret) => result = Err("VerificationFailed")

C9_Witness ==
    /\ call.op = "verify"
    /\ engine.called
    /\ ~engine.ret
    /\ PairingReached
    /\ result = Err("VerificationFailed")

(* C10: when the SHA-256 call made by Transcript.compute fails, compute
   returns an error, the slot is not marked computed and last_pos does not
   advance. *)
C10_FailedHashIsNotAChallenge ==
    [][(fs_call'.op = "compute" /\ fs_call'.sha = "failed") =>
          /\ ~fs_ret'.ok
          /\ ordered' = ordered
          /\ last_pos' = last_pos]_vars

(* C11: a failed EcMul, EcAdd or EcPairing call is the last call made: the
   Groth16 engine returns false at the first failing call and ec::msm
   returns an error at the first failing call, with no call after it. *)
C11_OracleFailureIsTerminal ==
    /\ IsGroth16Run =>
           \A i \in 1 .. Len(oracle) :
               ~oracle[i].ok => (i = Len(oracle) /\ ~engine.ret)
    /\ call.op = "msm" =>
           \A i \in 1 .. Len(oracle) :
               ~oracle[i].ok => (i = Len(oracle) /\ result = Err("unit"))

C11_Witness ==
    /\ engine.called /\ engine.system = "groth16"
    /\ Len(oracle) >= 3
    /\ LastCall.addr = EC_MUL
    /\ ~LastCall.ok
    /\ \A i \in 1 .. (Len(oracle) - 1) : oracle[i].ok
    /\ result = Ok("false")

(* whether the slot named `id` is the immediate successor of the last
   computed slot of the transcript *)
IsSuccessor(id) ==
    idx_of(ordered, id).ok /\ idx_of(ordered, id).val = last_pos + 1

(* C12: compute(name) succeeds only when name is the immediate successor of
   the last computed slot; for a later slot, an unknown name or a slot
   already computed it returns an error and leaves the transcript
   unchanged. *)
C12_ComputeOnlySuccessor ==
    [][fs_call'.op = "compute" =>
          /\ fs_ret'.ok => IsSuccessor(fs_call'.id)
          /\ ~IsSuccessor(fs_call'.id) =>
                 (~fs_ret'.ok /\ ordered' = ordered /\ last_pos' = last_pos)]_vars

(* C13: once a slot is computed, bind on it returns an error and changes
   nothing, and no bind or compute changes the slot's value or its binding
   list. *)
C13_ComputedSlotIsImmutable ==
    [][fs_call'.op \in {"bind", "compute"} =>
          \A i \in 1 .. Len(ordered) :
              ordered[i].computed =>
                  /\ ordered'[i] = ordered[i]
                  /\ (fs_call'.op = "bind" /\ idx_of(ordered, fs_call'.id) = OkV(i - 1))
                         => (~fs_ret'.ok /\ ordered' = ordered /\ last_pos' = last_pos)]_vars

C13_Witness ==
    /\ fs_call.op = "bind"
    /\ ~fs_ret.ok
    /\ idx_of(ordered, fs_call.id).ok
    /\ ordered[idx_of(ordered, fs_call.id).val + 1].computed
    /\ ordered[idx_of(ordered, fs_call.id).val + 1].bindings # <<>>

IsSp1Run == engine.called /\ engine.system \in {"sp1", "sp1-plonk"}

(* SHA256(public_values) with the top three bits of its first byte cleared,
   read big-endian and reduced mod r *)
MaskedDigest(public_values) ==
    from_be_slice([Sha256(public_values) EXCEPT ![1] = @ % (ByteBase \div 8)]) % R

(* C14: the public-signal vector an SP1 dispatcher passes to its engine is
   [program_vkey mod r, d] with d the masked SHA-256 of public_values
   reduced mod r; both elements are < r. *)
C14_Sp1PublicSignals ==
    IsSp1Run =>
        /\ engine.public_signals =
               <<from_be_slice(call.x) % R, MaskedDigest(call.y)>>
        /\ \A i \in 1 .. 2 : engine.public_signals[i] < R

(* the digest element alone is as claimed *)
C14_DigestElement ==
    IsSp1Run => engine.public_signals[2] = MaskedDigest(call.y)

(* The low and the high half of the byte-reversed digest d, as integers:
   the reversed digest's last bytes are d's first bytes backwards. *)
DigestLo(d) == from_be_slice([i \in 1 .. HalfLen |-> d[HalfLen + 1 - i]])
DigestHi(d) == from_be_slice([i \in 1 .. HalfLen |-> d[WordLen + 1 - i]])

(* the claim digest of a RISC Zero call *)
ClaimDigestOfCall ==
    IF call.op = "verify" THEN ReceiptClaimDigest(ReceiptClaimOk(call.x, call.y))
    ELSE call.x

(* C15: when initialize has succeeded the verifier holds the two halves of
   its control_root argument and its control id (which no later call
   changes, C4), and every engine run of the RISC Zero dispatcher gets the
   signals
   [ctrl_lo, ctrl_hi, claim_lo, claim_hi, bn254_control_id], the halves
   being those of the byte-reversed digests, each below 2^128. *)
C15_RiscZeroPublicSignals ==
    /\ (call.op = "initialize" /\ result.tag = "Ok") =>
           /\ from_be_slice(control_root_0) = DigestLo(call.x)
           /\ from_be_slice(control_root_1) = DigestHi(call.x)
           /\ bn254_control_id = call.y
    /\ (engine.called /\ engine.system = "risc0") =>
           /\ engine.public_signals =
                  <<from_be_slice(control_root_0), from_be_slice(control_root_1),
                    DigestLo(ClaimDigestOfCall), DigestHi(ClaimDigestOfCall),
                    from_be_slice(bn254_control_id)>>
           /\ \A i \in 1 .. 4 : engine.public_signals[i] < ByteBase ^ HalfLen

C15_Witness ==
    /\ engine.called /\ engine.system = "risc0"
    /\ call.op = "verify"
    /\ engine.public_signals[1] # engine.public_signals[2]
    /\ engine.public_signals[3] # engine.public_signals[4]
    /\ engine.ret

(* The byte string ReceiptClaim::ok(image_id, journal_digest).digest()
   hashes, written out: tag digest, input, image id, post-state digest,
   output digest, the two exit-code words, the down-count word. *)
ClaimBytes(image_id, journal_digest) ==
    Sha256(RECEIPT_CLAIM_TAG) \o <<0, 0, 0, 0>> \o image_id \o SYSTEM_STATE_ZERO_DIGEST
    \o Sha256(Sha256(OUTPUT_TAG) \o journal_digest \o <<0, 0, 0, 0>> \o <<2, 0>>)
    \o <<Halted, 0, 0, 0>> \o <<0, 0, 0, 0>> \o <<4, 0>>

(* C16: the claim digest verify builds is SHA256 of the tag digest, the
   zero input, image_id, the zero system state digest, the output digest,
   the two exit-code words and the down-count word of 4; it depends on
   (image_id, journal_digest) alone, and distinct pairs give distinct
   hashed strings. *)
C16_ReceiptClaimDigest ==
    /\ (call.op = "verify" /\ engine.called) =>
           /\ engine.public_signals[3] = DigestLo(Sha256(ClaimBytes(call.x, call.y)))
           /\ engine.public_signals[4] = DigestHi(Sha256(ClaimBytes(call.x, call.y)))
    /\ \A i1 \in ImageIds, i2 \in ImageIds, j1 \in JournalDigests, j2 \in JournalDigests :
           <<i1, j1>> # <<i2, j2>> => ClaimBytes(i1, j1) # ClaimBytes(i2, j2)

C16_Witness ==
    /\ call.op = "verify"
    /\ engine.called
    /\ call.y # ZeroWord
    /\ engine.ret

(* the bytes of d backwards *)
Backwards(d) == [i \in 1 .. Len(d) |-> d[Len(d) + 1 - i]]

(* the first four bytes of SHA256(SHA256(tag) || control_root ||
   reverse(bn254_control_id) || vk_digest || packed counts) *)
SelectorOf(control_root, control_id) ==
    SubSeq(Sha256(Sha256(GROTH16_RECEIPT_VERIFIER_PARAMETERS_TAG) \o control_root
                  \o Backwards(control_id) \o compute_verifier_key_digest \o <<3, 0>>),
           1, 4)

(* the control root whose split digest is stored: the stored halves are
   the reversed root's low and high half *)
StoredControlRoot == Backwards(control_root_1 \o control_root_0)

(* C17: once initialize has succeeded, the stored selector is the one
   derived from the stored control root and control id, the stored halves
   are split_digest of initialize's control_root and the stored control id
   is initialize's bn254_control_id. *)
C17_SelectorFollowsParameters ==
    /\ initialized => selector = SelectorOf(StoredControlRoot, bn254_control_id)
    /\ (call.op = "initialize" /\ result.tag = "Ok") =>
           /\ initialized
           /\ StoredControlRoot = call.x
           /\ bn254_control_id = call.y
           /\ selector = SelectorOf(call.x, call.y)

C17_Witness ==
    /\ initialized
    /\ call.op = "verify_integrity"
    /\ bn254_control_id # Backwards(bn254_control_id)
    /\ result.tag = "Ok"

Sq(x) == (x * x) % R

RECURSIVE PowR(_, _)
(* a^e mod r, exactly *)
PowR(a, e) ==
    IF e = 0 THEN 1 ELSE (Sq(PowR(a, e \div 2)) * (IF e % 2 = 1 THEN a ELSE 1)) % R

(* C18: batch_invert(v) of a vector of elements of [1, r) is a vector u of
   the same length with u[i] * v[i] = 1 (mod r) at every index; with a zero
   element in v, batch_invert returns None. *)
C18_BatchInvert ==
    call.op = "batch_invert" =>
        IF \E i \in 1 .. Len(call.x) : call.x[i] = 0
        THEN result.tag = "Err"
        ELSE /\ result.tag = "Ok"
             /\ Len(result.val) = Len(call.x)
             /\ \A i \in 1 .. Len(call.x) : (result.val[i] * call.x[i]) % R = 1

(* the half of C18 about zero elements *)
C18_ZeroFails ==
    (call.op = "batch_invert" /\ \E i \in 1 .. Len(call.x) : call.x[i] = 0)
        => result.tag = "Err"

(* C19: for a in [1, r) mod_inv and mod_inverse return a^(r-2) mod r, the
   inverse of a; for a = 0 they fail. *)
C19_ModInverse ==
    call.op \in {"mod_inv", "mod_inverse"} =>
        IF call.x = 0
        THEN result.tag = "Err"
        ELSE /\ result.tag = "Ok"
             /\ result.val = PowR(call.x, R - 2)
             /\ (call.x * result.val) % R = 1

(* C19 for math::mod_inv alone *)
C19_MathModInv ==
    (call.op = "mod_inv" /\ call.x # 0) =>
        result.tag = "Ok" /\ (call.x * result.val) % R = 1

(* C19 for PlonkVerifier::mod_inverse alone *)
C19_PlonkModInverse ==
    (call.op = "mod_inverse" /\ call.x # 0) =>
        result.tag = "Ok" /\ (call.x * result.val) % R = 1

(* the half of C19 about zero *)
C19_ZeroFails ==
    (call.op \in {"mod_inv", "mod_inverse"} /\ call.x = 0) => result.tag = "Err"

HasChallenges == engine.called /\ engine.system = "plonk" /\ engine.challenges # <<>>

(* zeta is omega^i for some i below bound *)
IsDomainPoint(zeta, omega, bound) == \E i \in 0 .. bound - 1 : zeta = PowR(omega, i)

(* C20: a PLONK verification whose challenge zeta is omega^i for some
   i in [0, P), P the number of public inputs, returns false. *)
C20_DomainPointRejected ==
    (HasChallenges /\ IsDomainPoint(engine.challenges[4], engine.vk.omega,
                                 Len(engine.public_signals)))
        => (~engine.ret /\ ~engine.panicked)

(* C20 for the first two domain points, 1 and omega *)
C20_FirstTwoPointsRejected ==
    (HasChallenges /\ Len(engine.public_signals) = engine.vk.num_public_inputs
                /\ IsDomainPoint(engine.challenges[4], engine.vk.omega,
                                 IF Len(engine.public_signals) < 2
                                 THEN Len(engine.public_signals) ELSE 2))
        => (~engine.ret /\ ~engine.panicked /\ oracle = <<>>)

(* compute_lagrange_basis at x = omega_i is an error, whatever the domain *)
C20_LagrangeZeroDenominator ==
    HasChallenges =>
    \A x \in 0 .. R - 1 :
        ~compute_lagrange_basis(x, x, engine.vk.domain_size, engine.vk.omega).ok

(* C21: mod_mul(a, b, m) is (a * b) mod m taken over the unbounded
   integers, for every a and b of the word range and every m > 0. *)
C21_ModMulExact ==
    call.op = "mod_mul" =>
        (result.tag = "Ok" /\ result.val = (call.x[1] * call.x[2]) % call.y)

(* C21 where the product of the reduced a with b stays within the word *)
C21_ExactWithoutOverflow ==
    (call.op = "mod_mul" /\ (call.x[1] % call.y) * call.x[2] < U256Mod) =>
        (result.tag = "Ok" /\ result.val = (call.x[1] * call.x[2]) % call.y)

(* the 32-byte big-endian encodings of the words ws, one after another *)
Encoded(ws) == Flatten([i \in 1 .. Len(ws) |-> to_bytes(ws[i])])

(* the first operand of the k-th oracle call when it is an addition: the
   running sum, which starts at `first` and is the previous addition's output *)
RunningSum(k, first) == IF k = 2 THEN Encoded(first) ELSE oracle[k - 2].ret

(* the oracle calls are multiplications of points[i] by scalars[i] and
   additions of the product to the running sum, with the operands encoded
   in the input *)
OperandsEncoded(points, scalars, first) ==
    \A k \in 1 .. Len(oracle) :
        /\ oracle[k].addr = EC_MUL =>
               \E i \in 1 .. Len(scalars) :
                   /\ i <= Len(points)
                   /\ oracle[k].input = Encoded(<<points[i].x, points[i].y, scalars[i]>>)
        /\ oracle[k].addr = EC_ADD =>
               /\ k > 1
               /\ oracle[k].input = RunningSum(k, first) \o oracle[k - 1].ret

(* C22: ec::ec_add sends p.x || p.y || q.x || q.y to EcAdd and ec::ec_mul
   sends p.x || p.y || s to EcMul, each field the operand's big-endian word;
   so do point_add and scalar_mul of the Groth16 engine. *)
C22_OperandsReachOracle ==
    /\ call.op = "msm" => OperandsEncoded(call.x, call.y, <<0, 0>>)
    /\ IsGroth16Run =>
           OperandsEncoded(Tail(engine.vk.ic), engine.public_signals,
                           <<engine.vk.ic[1].x, engine.vk.ic[1].y>>)

(* C22 for Groth16Verifier::point_add and scalar_mul alone *)
C22_Groth16OperandsReachOracle ==
    (IsGroth16Run /\ oracle # <<>>) =>
        OperandsEncoded(Tail(engine.vk.ic), engine.public_signals,
                        <<engine.vk.ic[1].x, engine.vk.ic[1].y>>)

(* the input lengths of C22: four words to EcAdd, three to EcMul *)
C22_InputLengths ==
    \A k \in 1 .. Len(oracle) :
        /\ oracle[k].addr = EC_ADD => Len(oracle[k].input) = 4 * WordLen
        /\ oracle[k].addr = EC_MUL => Len(oracle[k].input) = 3 * WordLen

(* the j-th 192-byte block of a pairing input carries g2 as
   x[1] || x[0] || y[1] || y[0] (the source's indices) *)
G2Block(input, j, g2) ==
    /\ WordAt(input, 6 * j + 3) = g2.x[2]
    /\ WordAt(input, 6 * j + 4) = g2.x[1]
    /\ WordAt(input, 6 * j + 5) = g2.y[2]
    /\ WordAt(input, 6 * j + 6) = g2.y[1]

Groth16PairingOrder ==
    (IsGroth16Run /\ PairingReached) =>
        /\ Len(LastCall.input) = 24 * WordLen
        /\ G2Block(LastCall.input, 0, ProofB)
        /\ G2Block(LastCall.input, 1, engine.vk.beta2)
        /\ G2Block(LastCall.input, 2, engine.vk.gamma2)
        /\ G2Block(LastCall.input, 3, engine.vk.delta2)

PlonkPairingOrder ==
    (IsPlonkRun /\ PairingReached) =>
        /\ Len(LastCall.input) = 12 * WordLen
        /\ G2Block(LastCall.input, 0, engine.vk.kzg_g2)
        /\ G2Block(LastCall.input, 1,
                   ec_sub_g2(ec_mul_g2(engine.vk.kzg_g2, engine.challenges[4]),
                             engine.vk.kzg_g2))

EcPairingOrder ==
    (call.op = "pairing") =>
        /\ Len(oracle) = 1
        /\ Len(LastCall.input) = 6 * WordLen * Len(call.x)
        /\ \A j \in 1 .. Len(call.x) :
               /\ WordAt(LastCall.input, 6 * j - 5) = call.x[j][1].x
               /\ WordAt(LastCall.input, 6 * j - 4) = call.x[j][1].y
               /\ G2Block(LastCall.input, j - 1, call.x[j][2])

(* C23: every pairing call encodes each (G1, G2) pair as
   x1 || y1 || x2[1] || x2[0] || y2[1] || y2[0], in
   Groth16Verifier::pairing_check, ec::pairing and
   PlonkVerifier::pairing_check alike. *)
C23_PairingEncoding == Groth16PairingOrder /\ PlonkPairingOrder /\ EcPairingOrder

(* C23 for Groth16Verifier::pairing_check alone *)
C23_Groth16PairingEncoding == PairingReached => Groth16PairingOrder

(* ec::pairing and PlonkVerifier::pairing_check: the block length and the
   G1 point of each pair are as C23 says *)
C23_BlockLengthAndG1 ==
    /\ (IsPlonkRun /\ PairingReached) => Len(LastCall.input) = 12 * WordLen
    /\ call.op = "pairing" =>
           /\ Len(LastCall.input) = 6 * WordLen * Len(call.x)
           /\ \A j \in 1 .. Len(call.x) :
                  /\ WordAt(LastCall.input, 6 * j - 5) = call.x[j][1].x
                  /\ WordAt(LastCall.input, 6 * j - 4) = call.x[j][1].y

Shorter(a, b) == IF Len(a) < Len(b) THEN Len(a) ELSE Len(b)

RECURSIVE GroupSum(_, _, _)
(* s_1 P_1 + ... + s_n P_n by the group law *)
GroupSum(points, scalars, n) ==
    IF n = 0 THEN Infinity
    ELSE CurveAdd(GroupSum(points, scalars, n - 1), CurveMul(points[n], scalars[n]))

AllCallsSucceeded == \A k \in 1 .. Len(oracle) : oracle[k].ok

(* msm makes one EcMul and then one EcAdd call for each non-zero scalar
   and none for a zero scalar *)
MsmCallPattern ==
    /\ Len(oracle) =
           2 * Cardinality({i \in 1 .. Shorter(call.x, call.y) : call.y[i] # 0})
    /\ \A k \in 1 .. Len(oracle) :
           oracle[k].addr = (IF k % 2 = 1 THEN EC_MUL ELSE EC_ADD)

(* C24: with an oracle implementing the group law, ec::msm(points, scalars)
   returns the sum of s_i P_i, making no oracle call for a zero scalar and
   an ec_mul followed by an ec_add for each non-zero one. *)
C24_MsmIsTheSum ==
    (call.op = "msm" /\ AllCallsSucceeded) =>
        /\ result.tag = "Ok"
        /\ result.val = GroupSum(call.x, call.y, Shorter(call.x, call.y))
        /\ MsmCallPattern

(* the calls of C24 without the returned value *)
C24_CallPattern ==
    (call.op = "msm" /\ AllCallsSucceeded) => (result.tag = "Ok" /\ MsmCallPattern)

(* C25: when the Groth16 engine reaches its pairing call, the G1 point it
   pairs with gamma is ic_0 + w_1 ic_1 + ... + w_n ic_n by the group law,
   and the i-th multiplication sent to the oracle is of ic_i by w_i, in
   ascending order of i, each followed by the addition to the running sum. *)
C25_VkXIsTheLinearCombination ==
    (IsGroth16Run /\ PairingReached) =>
        /\ G1(WordAt(LastCall.input, 13), WordAt(LastCall.input, 14))
               = CurveAdd(engine.vk.ic[1],
                          GroupSum(Tail(engine.vk.ic), engine.public_signals,
                                   Len(engine.public_signals)))
        /\ Len(oracle) = 2 * Len(engine.public_signals) + 1
        /\ \A i \in 1 .. Len(engine.public_signals) :
               /\ oracle[2 * i - 1].addr = EC_MUL
               /\ oracle[2 * i - 1].input =
                      Encoded(<<engine.vk.ic[i + 1].x, engine.vk.ic[i + 1].y,
                                engine.public_signals[i]>>)
               /\ oracle[2 * i].addr = EC_ADD

C25_Witness ==
    /\ IsGroth16Run
    /\ PairingReached
    /\ Len(engine.public_signals) >= 2
    /\ engine.public_signals[1] # engine.public_signals[2]
    /\ \A i \in 1 .. Len(engine.public_signals) : engine.public_signals[i] # 0

(* the one-based index of the slot the last transcript call named *)
SlotOfCall == idx_of(ordered, fs_call.id).val + 1

(* name_ascii || prev || b_0 || b_1 || ... for the slot at index i *)
ChallengeInput(i) ==
    as_bytes(ordered[i].id)
    \o (IF i = 1 THEN <<>> ELSE ordered[i - 1].value)
    \o Flatten(ordered[i].bindings)

(* C26: a compute that hashes (its SHA-256 call answered) stores and
   returns SHA256(name_ascii || prev || b_0 || b_1 || ...), prev being the
   value of the slot just before (empty for the first slot) and b_0, b_1, ...
   the byte strings bound to the slot, in the order of their bind calls:
   each successful bind appends its bytes to the slot's list. *)
C26_ChallengeIsHashOfNamePrevBindings ==
    /\ []((fs_call.op = "compute" /\ fs_call.sha = "ok") =>
             /\ fs_ret.ok
             /\ fs_call.bytes = ChallengeInput(SlotOfCall)
             /\ fs_ret.val = Sha256(ChallengeInput(SlotOfCall))
             /\ ordered[SlotOfCall].value = fs_ret.val
             /\ ordered[SlotOfCall].computed)
    /\ [][(fs_call'.op = "bind" /\ fs_ret'.ok) =>
             ordered' = [ordered EXCEPT
                            ![idx_of(ordered, fs_call'.id).val + 1].bindings =
                                Append(@, fs_call'.bytes)]]_vars

C26_Witness ==
    /\ fs_call.op = "compute"
    /\ fs_call.sha = "ok"
    /\ SlotOfCall = 2
    /\ ordered[1].value # ZeroWord
    /\ Len(ordered[2].bindings) = 2
    /\ ordered[2].bindings[1] # ordered[2].bindings[2]

(* C27: -1 <= last_pos <= (number of slots) - 1 and the computed slots are
   exactly those at index <= last_pos; over bind and compute calls last_pos
   never decreases, only compute changes it, and a successful compute of a
   slot not yet computed increases it by exactly one. *)
C27_LastPosAdvancesByOne ==
    /\ [](/\ last_pos >= -1
          /\ last_pos <= Len(ordered) - 1
          /\ \A i \in 1 .. Len(ordered) : ordered[i].computed <=> (i - 1 <= last_pos))
    /\ [][fs_call'.op \in {"bind", "compute"} =>
             /\ last_pos' >= last_pos
             /\ last_pos' # last_pos => (fs_call'.op = "compute" /\ last_pos' = last_pos + 1)
             /\ (/\ fs_call'.op = "compute"
                 /\ fs_ret'.ok
                 /\ ~ordered[idx_of(ordered, fs_call'.id).val + 1].computed)
                    => last_pos' = last_pos + 1]_vars

C27_Witness ==
    /\ fs_call.op = "compute"
    /\ fs_ret.ok
    /\ fs_call.sha # "none"
    /\ last_pos = 2
    /\ ordered[2].bindings # <<>>

(* the x and y of the points ps, one after another *)
Coordinates(ps) == Flatten([i \in 1 .. Len(ps) |-> <<ps[i].x, ps[i].y>>])

(* the words of the proof the SP1 PLONK dispatcher decoded from the seal *)
DecodedProofWords ==
    abi_decode(SubSeq(call.seal, SelectorLen + 1, Len(call.seal)), PlonkProofWords).words

IsSp1PlonkRun == engine.called /\ engine.system = "sp1-plonk" /\ engine.challenges # <<>>

(* C28: in the PLONK verification run by the SP1 PLONK dispatcher gamma is
   the first challenge and what is hashed into it is, in order, the
   verification key's G1 commitments (s_1, s_2, s_3, q_L, q_R, q_M, q_O,
   q_K), every public input and the wire commitments [L], [R], [O]; so a
   different public input or key gives gamma a different hashed input. *)
C28_GammaAbsorbsKeyAndInputs ==
    IsSp1PlonkRun =>
        engine.challenges[6] =
            Coordinates(engine.vk.permutation_commitments)
            \o Coordinates(engine.vk.selector_commitments)
            \o engine.public_signals
            \o SubSeq(DecodedProofWords, 1, 6)

(* the consequence of C28 alone: some public input is among what is hashed
   into gamma *)
C28_GammaHashesAPublicInput ==
    IsSp1PlonkRun =>
        \E i \in 1 .. Len(engine.public_signals), k \in 1 .. Len(engine.challenges[6]) :
            engine.challenges[6][k] = engine.public_signals[i]

(* what the engine hashes into gamma: beta, derived before it from [L] and
   [R], and the coordinates of [O] *)
C28_GammaFromBetaAndO ==
    IsSp1PlonkRun =>
        /\ engine.challenges[6] =
               <<engine.challenges[1], DecodedProofWords[5], DecodedProofWords[6]>>
        /\ engine.challenges[1] = hash_to_field(SubSeq(DecodedProofWords, 1, 4))
        /\ engine.challenges[2] = hash_to_field(engine.challenges[6])

(* what verify_integrity returns for the seal and claim digest on the
   stored fields, with the oracle behaving as env *)
VerifyIntegrityOutcome(seal, claim_digest, env) ==
    IF ~initialized THEN Outcome(Err("InvalidInitialization"), NoEngine, <<>>)
    ELSE verify_integrity_internal(seal, claim_digest, env)

SameOutcome(out) == result = out.result /\ engine = out.engine /\ oracle = out.oracle

(* C29: verify(seal, image_id, journal_digest) returns what
   verify_integrity(seal, ReceiptClaim::ok(image_id, journal_digest).digest())
   returns on the same stored fields and the same oracle answers, and neither
   method changes a stored field. *)
C29_VerifyIsVerifyIntegrityOfOkClaim ==
    /\ [](call.op = "verify" =>
             \E env \in Envs :
                 SameOutcome(VerifyIntegrityOutcome(
                     call.seal, ReceiptClaimDigest(ReceiptClaimOk(call.x, call.y)), env)))
    /\ [][call'.op \in {"verify", "verify_integrity"} => storage' = storage]_vars

C29_Witness ==
    /\ call.op = "verify"
    /\ initialized
    /\ engine.called
    /\ PairingReached
    /\ result = Ok("true")
    /\ ReceiptClaimDigest(ReceiptClaimOk(call.x, call.y)) # call.y

StoredIdOutOfField == initialized /\ from_be_slice(bn254_control_id) >= R

(* C30: initialize checks no range: on an uninitialized verifier it succeeds
   for every bn254_control_id and stores it as given; once a stored
   bn254_control_id is at least r, no verify or verify_integrity call returns
   Ok(true) in any later state, and no later initialize call succeeds. *)
C30_OutOfFieldControlIdBricksVerifier ==
    /\ [][(~initialized /\ call'.op = "initialize") =>
              /\ result' = Ok("unit")
              /\ initialized'
              /\ bn254_control_id' = call'.y]_vars
    /\ [](StoredIdOutOfField => (RiscZeroCall => result # Ok("true")))
    /\ [][StoredIdOutOfField =>
              /\ StoredIdOutOfField'
              /\ (call'.op = "initialize" => result' = Err("AlreadyInitialized"))]_vars

C30_Witness ==
    /\ StoredIdOutOfField
    /\ RiscZeroCall
    /\ engine.called /\ engine.system = "risc0"
    /\ OutOfField(engine.public_signals)
    /\ result = Err("VerificationFailed")
    /\ oracle = <<>>

====
